---- MODULE Spec2Model ----
(***************************************************************************)
(* Verification model of the Patmos single-path conversion pipeline:       *)
(*   - RAInfo (predicate register allocation), RAInfo.cpp                  *)
(*   - LinearizeWalker and RedundantLdStEliminator, PatmosSPReduce.cpp     *)
(* Each part has its own specification (SpecRA, SpecTree, ...); the        *)
(* variables of the other parts stay at their idle values.                 *)
(***************************************************************************)
EXTENDS Integers, Sequences, FiniteSets, TLC

(***************************************************************************)
(* Bounds of the model                                                     *)
(***************************************************************************)
\* largest number of blocks of the scope that is scanned
MaxBlocks == 3
\* number of predicates of the scope that is scanned (predicate 0 is the
\* header predicate)
NumPreds == 3
\* largest number of definitions (defining edges) of one block
MaxDefs == 2
\* largest number of defined predicates of a scope that guard no later block
MaxUnusedDefs == 1
\* largest number of definitions of one block that are sorted
MaxBlockDefs == 3
\* largest number of definitions of a block whose code is executed
MaxSwapDefs == 2
\* number of predicate registers the definitions of a block name
NumDefRegs == 3
\* number of registers that hold branch conditions
NumCondRegs == 1
\* number of stack locations the definitions of a block name
NumStackLocs == 1
\* instructions of the block handed to applyPredicates
MaxInstrs == 2
\* largest number of loops below the top-level scope of a function whose
\* spill slots are reserved
MaxLoops == 18
\* largest number of those loops that hold an inner loop
MaxInnerLoops == 2
\* largest number of predicates of a loop of that function
MaxPrepPreds == 3
\* largest number of predicate registers available to its allocation
MaxPrepRegs == 2
\* largest number of predicate registers other than P0 that the code of a
\* function uses before the reduction
MaxUsedPRegs == 1
\* largest location index of the guard of a calling block and of the header
\* predicate of a callee
MaxCallLoc == 1
\* number of sweeps of findRedundantLoads that are counted
MaxSweeps == 6
\* largest number of scopes of a function whose loops execute
MaxLoopScopes == 3
\* largest loop bound of such a loop
MaxLoopBound == 3
\* TRI->getSpillSize(RRegs) in bits: the predicate bits of one frame object
RRegsSpillBits == 32
\* largest number of available predicate registers
MaxRegsBound == 2
\* largest index of a location read from a freed set node
MaxDanglingIdx == 1

\* scopes in a scope tree
MaxScopes == 4
\* locations one scope of a scope tree may need
MaxScopeLocs == 4
\* predicate registers available to the scopes of a scope tree
MaxTreeRegs == 4

\* largest index of a Location put into a free set
MaxLocIdx == 2

\* scopes of a function that is linearized
MaxLinScopes == 3
\* blocks of a scope that belong to no inner scope (the header is one)
MaxOwnBlocks == 2
\* scopes of a function whose loads are eliminated
MaxElimScopes == 3
\* blocks of such a function before the linearizer adds its own
MaxElimBlocks == 4

Preds == 0 .. (NumPreds - 1)

(***************************************************************************)
(* RAInfo.cpp: Location, LiveRange                                         *)
(***************************************************************************)
Register == "Register"
Stack == "Stack"

Location(type, loc) == [type |-> type, loc |-> loc]

\* operator<(const Location&, const Location&)
LocLess(l, r) ==
  IF l.type = r.type THEN l.loc < r.loc ELSE FALSE

\* two keys a std::set<Location> cannot tell apart
LocEquiv(l, r) == ~LocLess(l, r) /\ ~LocLess(r, l)

\* std::set<Location>::insert: the key is dropped when the set already holds
\* a key that is equivalent under operator<
SetInsert(S, x) ==
  IF \E y \in S : LocEquiv(x, y) THEN S ELSE S \cup {x}

\* std::set<Location>::count
SetCount(S, x) ==
  IF \E y \in S : LocEquiv(x, y) THEN 1 ELSE 0

\* *FreeLocs.begin(): the least key
SetBegin(S) ==
  CHOOSE x \in S : \A y \in S : ~LocLess(y, x)

\* LiveRange::LiveRange without "range++": one position per block only
NewLiveRangeNoSentinel(range) ==
  [uses |-> [i \in 0 .. (range - 1) |-> FALSE],
   defs |-> [i \in 0 .. (range - 1) |-> FALSE]]

\* LiveRange::LiveRange(range): range+1 positions, nothing used or defined
NewLiveRange(range) ==
  [uses |-> [i \in 0 .. range |-> FALSE], defs |-> [i \in 0 .. range |-> FALSE]]

addUse(lr, pos) == [lr EXCEPT !.uses[pos] = TRUE]

addDef(lr, pos) == [lr EXCEPT !.defs[pos] = TRUE]

LRSize(lr) == Cardinality(DOMAIN lr.uses)

lastUse(lr, pos) ==
  \A i \in (pos + 1) .. (LRSize(lr) - 1) : ~lr.uses[i]

hasDefBefore(lr, pos) ==
  \E i \in 0 .. (pos - 1) : lr.defs[i]

anyUseBefore(lr, pos) ==
  \E i \in 0 .. pos : lr.uses[i]

\* true iff lr has a use at some i >= pos that comes strictly before the
\* first use of other at or after pos
hasNextUseBefore(lr, pos, other) ==
  \E i \in pos .. (LRSize(lr) - 1) :
     /\ lr.uses[i]
     /\ \A j \in pos .. i : ~other.uses[j]

(***************************************************************************)
(* State                                                                   *)
(***************************************************************************)
VARIABLES
  \* --- RAInfo::Impl of the scope that is scanned -------------------------
  Scope,        \* the SPScope: blocks in topological order, isTopLevel, isRootTopLevel
  MaxRegs,      \* Impl::MaxRegs
  LRs,          \* Impl::LRs: predicate -> LiveRange
  DefLocs,      \* Impl::DefLocs: predicate -> Location
  NumLocs,      \* Impl::NumLocs
  UseLocs,      \* Impl::UseLocs: block index -> (predicate -> UseLoc)
  curLocs,      \* assignLocations: curLocs
  FreeLocs,     \* assignLocations: FreeLocs
  scanPos,      \* assignLocations: the loop index i
  raPc,         \* position in the Impl constructor / computeRegAlloc
  ChildrenMaxCumLocs,   \* Impl::ChildrenMaxCumLocs
  FirstUsableReg,       \* Impl::FirstUsableReg
  FirstUsableStackSlot, \* Impl::FirstUsableStackSlot
  NeedsScopeSpill,      \* Impl::NeedsScopeSpill
  \* --- RAInfo::computeRegAlloc over a scope tree -------------------------
  scopeParent,  \* SPScope::getParent: scope -> parent scope (root: itself)
  RAInfos,      \* computeRegAlloc: RAInfos, scope -> Impl fields
  spillLocCnt,  \* computeRegAlloc: spillLocCnt
  treeIdx,      \* position of the running traversal
  treePc,       \* which traversal of computeRegAlloc runs
  \* --- a std::set<Location> on its own ----------------------------------
  locSet,       \* the elements the set holds
  locInserted,  \* the distinct locations inserted and not erased since
  \* --- LinearizeWalker ---------------------------------------------------
  linFunc,      \* the function: scope tree, blocks, needsScopeSpill, hasLoopBound
  linAsserts,   \* whether the build keeps assert()
  linSucc,      \* MachineBasicBlock::successors of every block of MF
  linLayout,    \* the blocks of MF in layout order
  LastMBB,      \* LinearizeWalker::LastMBB (0: null)
  linCounterInit, \* loops whose counter slot the preheader initialises
  linBackEdges, \* loop -> the block that branches back to its header
  linTrace, \* the calls of the walker so far, each with the blocks it created
  linIdx,       \* position of SPScope::walk
  linPc,        \* "walk", "done", "aborted" (or "idle")
  \* --- RedundantLdStEliminator ------------------------------------------
  elimFunc,     \* the function: scope tree and the code inserted per block
  elimMF,       \* the blocks of MF in layout order: instructions, back edge
  Removables,   \* RedundantLdStEliminator::Removables
  BlockInfos,   \* RedundantLdStEliminator::BlockInfos
  elimCount,    \* the value process() returned (0 before it returns)
  elimPc,       \* "start", "linearized", "merged", "found", "removed"
  \* --- PatmosSPReduce::insertPredDefinitions for one block ---------------
  defs_sorted,  \* insertPredDefinitions: defs_sorted
  defCount,     \* number of definitions of the block handled so far
  defLimit,     \* number of definitions the block may have
  defMode,      \* isSubheader(block), needsScopeSpill of the scope it heads
  defCode,      \* the instructions inserted before the block's terminator
  defBefore,    \* machine state in front of the inserted instructions
  defAfter,     \* machine state behind them
  defPc,        \* "sort", "emitted", "executed", "assert" (or "idle")
  \* --- PatmosSPReduce::applyPredicates for one block ---------------------
  appBlock,     \* the block: its instructions, their guards, its flags
  appCode,      \* the instructions of the block afterwards
  appPc,        \* "start", "applied" (or "idle")
  \* --- PatmosSPPrepare::doPrepareFunction and the slots of the function --
  prepFunc,     \* the function: its loops and their predicates and locations
  requiredPreds,    \* doPrepareFunction: requiredPreds, one entry per depth
  numSpillSlotsReq, \* doPrepareFunction: numSpillSlotsReq
  ExcessSpillFIs,   \* number of frame objects behind startSinglePathExcessSpill
  prepPc,       \* "choose", "prepare", "alloc", "allocated" (or "idle")
  \* --- the execution of the reduced code of a function with loops -------
  execBlock,    \* the block of MF that executes (0: none)
  execIdx,      \* the position of the next instruction in it
  execGuardsReg,    \* the value of GuardsReg (R26), a signed 32-bit word
  execPRTmp,    \* the value of PRTmp
  execSlots,    \* the words of the frame objects
  hdrCount,     \* loop -> executions of its header since the loop was entered
  loopExits,    \* <<loop, header executions>> at every fall through
  execPc,       \* "run", "halt" (or "idle")
  \* --- a call between two single-path functions -------------------------
  callFuncs,    \* the unused registers and the locations of caller and callee
  callRegs,     \* the values of the predicate registers
  callGuard,    \* the value of the guard of the calling block at the call
  callPc        \* "start", "reduced", "site", "called", "entered" (or "idle")

raVars == <<Scope, MaxRegs, LRs, DefLocs, NumLocs, UseLocs, curLocs, FreeLocs,
            scanPos, raPc, ChildrenMaxCumLocs, FirstUsableReg,
            FirstUsableStackSlot, NeedsScopeSpill>>

treeVars == <<scopeParent, RAInfos, spillLocCnt, treeIdx, treePc>>

locVars == <<locSet, locInserted>>

linVars == <<linFunc, linAsserts, linSucc, linLayout, LastMBB, linCounterInit,
             linBackEdges, linTrace, linIdx, linPc>>

elimVars == <<elimFunc, elimMF, Removables, BlockInfos, elimCount, elimPc>>

defVars == <<defs_sorted, defCount, defLimit, defMode, defCode, defBefore,
             defAfter, defPc>>

appVars == <<appBlock, appCode, appPc>>

prepVars == <<prepFunc, requiredPreds, numSpillSlotsReq, ExcessSpillFIs, prepPc>>

execVars == <<execBlock, execIdx, execGuardsReg, execPRTmp, execSlots, hdrCount,
              loopExits, execPc>>

callVars == <<callFuncs, callRegs, callGuard, callPc>>

vars == <<raVars, treeVars, locVars, linVars, elimVars, defVars, appVars,
          prepVars, execVars, callVars>>

\* what the actions of one specification leave alone
otherThanRA == <<treeVars, locVars, linVars, elimVars, defVars, appVars,
  prepVars, execVars, callVars>>
otherThanTree == <<raVars, locVars, linVars, elimVars, defVars, appVars,
  prepVars, execVars, callVars>>
otherThanLoc == <<raVars, treeVars, linVars, elimVars, defVars, appVars,
  prepVars, execVars, callVars>>
otherThanLin == <<raVars, treeVars, locVars, elimVars, defVars, appVars,
  prepVars, execVars, callVars>>
otherThanElim == <<raVars, treeVars, locVars, linVars, defVars, appVars,
  prepVars, execVars, callVars>>
otherThanDefs == <<raVars, treeVars, locVars, linVars, elimVars, appVars,
  prepVars, execVars, callVars>>
otherThanApply == <<raVars, treeVars, locVars, linVars, elimVars, defVars,
  prepVars, execVars, callVars>>
otherThanPrepare == <<raVars, locVars, linVars, elimVars, defVars, appVars,
  execVars, callVars>>
otherThanExec == <<raVars, treeVars, locVars, linVars, defVars, appVars,
  prepVars, callVars>>
otherThanCall == <<raVars, treeVars, locVars, linVars, elimVars, defVars,
  appVars, prepVars, execVars>>

(***************************************************************************)
(* Helpers for std::map and ordered iteration                              *)
(***************************************************************************)
EmptyMap == [x \in {} |-> 0]

Put(m, k, v) == [x \in (DOMAIN m) \cup {k} |-> IF x = k THEN v ELSE m[x]]

Erase(m, k) == [x \in (DOMAIN m) \ {k} |-> m[x]]

Min(S) == CHOOSE x \in S : \A y \in S : x <= y

RECURSIVE Ascending(_)
\* the elements of a std::set<unsigned> in iteration order
Ascending(S) ==
  IF S = {} THEN <<>> ELSE <<Min(S)>> \o Ascending(S \ {Min(S)})

Range(q) == {q[i] : i \in DOMAIN q}

Count(q, x) == Cardinality({i \in DOMAIN q : q[i] = x})

\* all orders of the elements of q
Orders(q) ==
  {r \in [DOMAIN q -> Range(q)] : \A x \in Range(q) : Count(r, x) = Count(q, x)}

(***************************************************************************)
(* RAInfo::Impl                                                            *)
(***************************************************************************)
NumBlocks == Cardinality(DOMAIN Scope.blocks)

\* Impl::getHeaderPred
getHeaderPred == Min(Scope.blocks[0].preds)

\* SPScope::isHeader: the header is the first block in topological order
isHeader(i) == i = 0

\* UseLoc::UseLoc(loc)
UseLoc(loc) == [loc |-> loc, load |-> <<FALSE, 0>>, spill |-> <<FALSE, 0>>]

\* the working state of assignLocations as one record
ScanState ==
  [curLocs |-> curLocs, FreeLocs |-> FreeLocs, NumLocs |-> NumLocs,
   DefLocs |-> DefLocs, UseLocs |-> UseLocs, stuck |-> FALSE]

\* what a read through an erased set iterator may yield
DanglingLocs ==
  {Location(t, i) : t \in {Register, Stack}, i \in 0 .. MaxDanglingIdx}

\* getAvailLoc with "oldNumLocs <= MaxRegs": one register too many
getAvailLocOffByOne(s) ==
  IF s.FreeLocs # {}
  THEN LET it == SetBegin(s.FreeLocs)
       IN  {[loc |-> l, s |-> [s EXCEPT !.FreeLocs = s.FreeLocs \ {it}]]
            : l \in {it} \cup DanglingLocs}
  ELSE LET oldNumLocs == s.NumLocs
       IN  {[loc |-> IF oldNumLocs <= MaxRegs
                     THEN Location(Register, oldNumLocs)
                     ELSE Location(Stack, oldNumLocs - MaxRegs),
             s   |-> [s EXCEPT !.NumLocs = oldNumLocs + 1]]}

\* Impl::getAvailLoc: the location handed out and the state afterwards
\* "FreeLocs.erase(it); return *it;" reads the element through the erased
\* iterator: the value returned is the erased element or whatever the freed
\* node holds by then
getAvailLoc(s) ==
  IF s.FreeLocs # {}
  THEN LET it == SetBegin(s.FreeLocs)
       IN  {[loc |-> l, s |-> [s EXCEPT !.FreeLocs = s.FreeLocs \ {it}]]
            : l \in {it} \cup DanglingLocs}
  ELSE LET oldNumLocs == s.NumLocs
       IN  {[loc |-> IF oldNumLocs < MaxRegs
                     THEN Location(Register, oldNumLocs)
                     ELSE Location(Stack, oldNumLocs - MaxRegs),
             s   |-> [s EXCEPT !.NumLocs = oldNumLocs + 1]]}

\* Impl::hasFreeRegister
hasFreeRegister(s) ==
  \/ (s.FreeLocs # {} /\ SetBegin(s.FreeLocs).type = Register)
  \/ s.NumLocs < MaxRegs

\* createLiveRanges: getOrCreateLRFor(predicate), as the map afterwards
getOrCreateLRFor(lrs, predicate) ==
  IF predicate \in DOMAIN lrs THEN lrs
  ELSE Put(lrs, predicate, NewLiveRange(NumBlocks))

RECURSIVE insertUses(_, _, _)
\* createLiveRanges: "for(auto pred: preds) getOrCreateLRFor(pred)->addUse(i)"
insertUses(lrs, ps, i) ==
  IF ps = <<>> THEN lrs
  ELSE LET m == getOrCreateLRFor(lrs, Head(ps))
       IN  insertUses([m EXCEPT ![Head(ps)] = addUse(@, i)], Tail(ps), i)

RECURSIVE insertDefs(_, _, _)
\* createLiveRanges: "for(auto def: ...) getOrCreateLRFor(def.predicate)->addDef(i)"
insertDefs(lrs, ds, i) ==
  IF ds = <<>> THEN lrs
  ELSE LET m == getOrCreateLRFor(lrs, Head(ds))
       IN  insertDefs([m EXCEPT ![Head(ds)] = addDef(@, i)], Tail(ds), i)

RECURSIVE liveRangesFrom(_, _)
\* createLiveRanges: the loop over the blocks, from block i on
liveRangesFrom(lrs, i) ==
  IF i >= NumBlocks THEN lrs
  ELSE liveRangesFrom(
         insertDefs(insertUses(lrs, Ascending(Scope.blocks[i].preds), i),
                    Scope.blocks[i].defs, i),
         i + 1)

\* Impl::createLiveRanges
createLiveRanges ==
  LET lrs == liveRangesFrom(EmptyMap, 0)
  IN  IF ~Scope.isTopLevel
      THEN insertUses(lrs, Ascending(Scope.blocks[0].preds), NumBlocks)
      ELSE lrs

\* a sort that puts the predicate with the furthest next use in front
sortFurthestFirst(pos, order) ==
  {r \in Orders(order) :
     \A a, b \in DOMAIN r :
        a < b => ~hasNextUseBefore(LRs[r[a]], pos, LRs[r[b]])}

\* Impl::sortFurthestNextUse: the orders std::sort may leave the vector in
\* (predicates with the same next use may end in any order)
sortFurthestNextUse(pos, order) ==
  {r \in Orders(order) :
     \A a, b \in DOMAIN r :
        a < b => ~hasNextUseBefore(LRs[r[b]], pos, LRs[r[a]])}

\* the values order.back() may have after sortFurthestNextUse(pos, order)
FurthestNextUse(pos, order) ==
  {p \in order : \A q \in order : ~hasNextUseBefore(LRs[p], pos, LRs[q])}

\* Impl::handleIfNotInRegister: the possible <<UseLoc, Location>> results and
\* the state afterwards
handleIfNotInRegister(blockIndex, s, stackLoc) ==
  IF hasFreeRegister(s)
  THEN {[UL |-> [UseLoc(r.loc.loc) EXCEPT !.load = <<TRUE, stackLoc>>],
          newLoc |-> r.loc, s |-> r.s]
        : r \in getAvailLoc(s)}
  ELSE LET order == {p \in DOMAIN LRs :
                       p \in DOMAIN s.curLocs /\ s.curLocs[p].type = Register}
       IN  IF order = {}
           THEN \* order.back() of an empty vector
                {[UL |-> UseLoc(0), newLoc |-> Location(Stack, stackLoc),
                  s |-> [s EXCEPT !.stuck = TRUE]]}
           ELSE {LET r           == furthest[2]
                     furthestPred == furthest[1]
                     newStackLoc == r.loc
                     used        == anyUseBefore(LRs[furthestPred], blockIndex)
                     replacement == s.curLocs[furthestPred]
                 IN  [UL |-> [UseLoc(replacement.loc) EXCEPT
                                !.load = <<TRUE, stackLoc>>,
                                !.spill = IF used THEN <<TRUE, newStackLoc.loc>>
                                                  ELSE <<FALSE, 0>>],
                      newLoc |-> replacement,
                      s |-> [r.s EXCEPT
                               !.DefLocs = IF used THEN @
                                           ELSE Put(@, furthestPred, newStackLoc),
                               !.curLocs = Put(@, furthestPred, newStackLoc)]]
                 : furthest \in FurthestNextUse(blockIndex, order)
                                \X getAvailLoc(s)}

\* Impl::calculateNotHeaderUseLoc: the possible UseLocs and states afterwards
calculateNotHeaderUseLoc(blockIndex, usePred, s) ==
  IF usePred \notin DOMAIN s.curLocs
  THEN \* a use that no location assignment precedes
       {[UL |-> UseLoc(0), s |-> [s EXCEPT !.stuck = TRUE]]}
  ELSE LET curUseLoc == s.curLocs[usePred]
       IN  IF curUseLoc.type = Stack
           THEN {[UL |-> r.UL,
                  s  |-> IF r.s.stuck THEN r.s
                         ELSE [r.s EXCEPT !.curLocs = Put(@, usePred, r.newLoc)]]
                 : r \in handleIfNotInRegister(blockIndex, s, curUseLoc.loc)}
           ELSE {[UL |-> UseLoc(curUseLoc.loc), s |-> s]}

\* Impl::calculateHeaderUseLoc
calculateHeaderUseLoc(s) ==
  LET headerPred == getHeaderPred
  IN  {[UL |-> UseLoc(r.loc.loc),
        s  |-> [r.s EXCEPT !.DefLocs = Put(@, headerPred, r.loc),
                           !.curLocs = Put(@, headerPred, r.loc)]]
       : r \in getAvailLoc(s)}

\* the uses of P0: the header predicate of the single-path root
usesP0(usePred) == usePred = getHeaderPred /\ Scope.isRootTopLevel

\* Impl::handlePredUse, first loop, one predicate
allocateUse(i, usePred, s) ==
  IF s.stuck \/ usesP0(usePred) THEN {s}
  ELSE {[r.s EXCEPT !.UseLocs =
            Put(@, i, Put(IF i \in DOMAIN @ THEN @[i] ELSE EmptyMap, usePred, r.UL))]
        : r \in (IF isHeader(i) THEN calculateHeaderUseLoc(s)
                 ELSE calculateNotHeaderUseLoc(i, usePred, s))}

\* Impl::handlePredUse, second loop ("retire locations"), one predicate
retireUse(i, usePred, s) ==
  IF s.stuck \/ usesP0(usePred) \/ ~lastUse(LRs[usePred], i) THEN s
  ELSE IF usePred \notin DOMAIN s.curLocs THEN [s EXCEPT !.stuck = TRUE]
  ELSE LET curUseLoc == s.curLocs[usePred]
       IN  [s EXCEPT !.FreeLocs = SetInsert(@, curUseLoc),
                     !.curLocs  = Erase(@, usePred)]

RECURSIVE allocateUses(_, _, _)
allocateUses(i, ps, S) ==
  IF ps = <<>> THEN S
  ELSE allocateUses(i, Tail(ps), UNION {allocateUse(i, Head(ps), s) : s \in S})

RECURSIVE retireUses(_, _, _)
retireUses(i, ps, s) ==
  IF ps = <<>> THEN s
  ELSE retireUses(i, Tail(ps), retireUse(i, Head(ps), s))

\* Impl::handlePredUse: the possible states after it
handlePredUse(i, s) ==
  LET ps == Ascending(Scope.blocks[i].preds)
  IN  {retireUses(i, ps, t) : t \in allocateUses(i, ps, {s})}

RECURSIVE assignOrder(_, _)
\* assignLocations: "for (auto pred: order)"
assignOrder(order, s) ==
  IF order = <<>> THEN {s}
  ELSE LET pred == Head(order)
       IN  UNION {assignOrder(Tail(order),
                     [r.s EXCEPT !.curLocs = Put(@, pred, r.loc),
                                 !.DefLocs = Put(@, pred, r.loc)])
                  : r \in getAvailLoc(s)}

\* assignLocations, step (3): the definitions of block i
handleDefinitions(i, s) ==
  LET definitions == Scope.blocks[i].defs
      order == SelectSeq(definitions, LAMBDA pred : pred \notin DOMAIN s.curLocs)
  IN  UNION {assignOrder(o, s) : o \in sortFurthestNextUse(i, order)}

\* assignLocations, after the loop: where the next iteration finds the
\* header predicate
headerLoad(s) ==
  IF Scope.isTopLevel THEN s
  ELSE LET headerPred == getHeaderPred
       IN  IF 0 \notin DOMAIN s.UseLocs \/ headerPred \notin DOMAIN s.UseLocs[0]
              \/ headerPred \notin DOMAIN s.curLocs
           THEN [s EXCEPT !.stuck = TRUE]
           ELSE LET curPredLoc == s.curLocs[headerPred].loc
                IN  IF s.UseLocs[0][headerPred].loc # curPredLoc
                    THEN [s EXCEPT !.UseLocs[0][headerPred].load = <<TRUE, curPredLoc>>]
                    ELSE s

\* Impl::getCumLocs
getCumLocs(impl) == impl.NumLocs + impl.ChildrenMaxCumLocs

\* unifyWithParent that starts at the parent's first register
unifyWithParentOverlap(impl, parent, parentSpillLocCnt, topLevel) ==
  LET a == IF ~topLevel /\ parent.NumLocs + getCumLocs(impl) <= impl.MaxRegs
           THEN [impl EXCEPT !.FirstUsableReg = parent.FirstUsableReg,
                             !.NeedsScopeSpill = FALSE]
           ELSE impl
  IN  IF a.NumLocs > a.MaxRegs
      THEN [a EXCEPT !.FirstUsableStackSlot = parentSpillLocCnt]
      ELSE a

\* unifyWithParent with "<" for "<="
unifyWithParentStrict(impl, parent, parentSpillLocCnt, topLevel) ==
  LET a == IF ~topLevel /\ parent.NumLocs + getCumLocs(impl) < impl.MaxRegs
           THEN [impl EXCEPT !.FirstUsableReg = parent.FirstUsableReg + parent.NumLocs,
                             !.NeedsScopeSpill = FALSE]
           ELSE impl
  IN  IF a.NumLocs > a.MaxRegs
      THEN [a EXCEPT !.FirstUsableStackSlot = parentSpillLocCnt]
      ELSE a

\* unifyWithParent that ignores the registers of the parent's ancestors
unifyWithParentNoInherit(impl, parent, parentSpillLocCnt, topLevel) ==
  LET a == IF ~topLevel /\ parent.NumLocs + getCumLocs(impl) <= impl.MaxRegs
           THEN [impl EXCEPT !.FirstUsableReg = parent.NumLocs,
                             !.NeedsScopeSpill = FALSE]
           ELSE impl
  IN  IF a.NumLocs > a.MaxRegs
      THEN [a EXCEPT !.FirstUsableStackSlot = parentSpillLocCnt]
      ELSE a

\* Impl::unifyWithParent
unifyWithParent(impl, parent, parentSpillLocCnt, topLevel) ==
  LET a == IF ~topLevel /\ parent.NumLocs + getCumLocs(impl) <= impl.MaxRegs
           THEN [impl EXCEPT !.FirstUsableReg = parent.FirstUsableReg + parent.NumLocs,
                             !.NeedsScopeSpill = FALSE]
           ELSE impl
  IN  IF a.NumLocs > a.MaxRegs
      THEN [a EXCEPT !.FirstUsableStackSlot = parentSpillLocCnt]
      ELSE a

\* Impl::unifyWithChild
unifyWithChild(impl, child) ==
  [impl EXCEPT !.ChildrenMaxCumLocs =
     IF getCumLocs(child) > @ THEN getCumLocs(child) ELSE @]

\* Impl::unifyRegister
unifyRegister(impl, idx) == idx + impl.FirstUsableReg

\* Impl::unifyStack
unifyStack(impl, idx) == idx + impl.FirstUsableStackSlot

\* RAInfo::neededSpillLocs
neededSpillLocs(impl) ==
  IF impl.NumLocs < impl.MaxRegs THEN 0 ELSE impl.NumLocs - impl.MaxRegs

\* the Impl fields of the scanned scope that the unification reads and writes
ThisImpl ==
  [MaxRegs |-> MaxRegs, NumLocs |-> NumLocs,
   ChildrenMaxCumLocs |-> ChildrenMaxCumLocs, FirstUsableReg |-> FirstUsableReg,
   FirstUsableStackSlot |-> FirstUsableStackSlot,
   NeedsScopeSpill |-> NeedsScopeSpill]

\* RAInfo::getUseLocs of block i
getUseLocs(i) ==
  IF i \in DOMAIN UseLocs
  THEN [p \in DOMAIN UseLocs[i] |-> unifyRegister(ThisImpl, UseLocs[i][p].loc)]
  ELSE EmptyMap

(***************************************************************************)
(* Specification SpecRA: RAInfo::Impl::Impl for one scope, followed by the *)
(* unification of computeRegAlloc with a top-level parent                  *)
(***************************************************************************)
\* the definitions of one block with a single guard: the edges that leave
\* the block define distinct predicates (two edges of one block are never
\* in the control dependence set of the same predicate)
DefLists ==
  {d \in UNION {[1 .. k -> Preds] : k \in 0 .. MaxDefs} :
     \A a, b \in DOMAIN d : a < b => d[a] < d[b]}

\* the predicates other than the header's that the blocks of q define
DefinedBy(q) == UNION {Range(q[i].defs) : i \in DOMAIN q} \ {0}

\* the definitions of a block behind blocks that define D: the predicates
\* other than the header's are numbered in the order of their first
\* definition
NextDefLists(D) ==
  {d \in DefLists :
     LET N == Range(d) \ (D \cup {0})
     IN  N = (Cardinality(D) + 1) .. (Cardinality(D) + Cardinality(N))}

\* the predicates other than the header's that a block of q defines and no
\* later block of q uses
Pending(q) ==
  {p \in DefinedBy(q) :
     \E j \in DOMAIN q :
        /\ p \in Range(q[j].defs)
        /\ \A i \in (j + 1) .. Len(q) : p \notin q[i].preds}

RECURSIVE BlockPrefixes(_, _)
\* the first k blocks of a scope of n blocks in topological order: each
\* block has one guard predicate; the header's is predicate 0, and every
\* other guard is the header's predicate or defined by an earlier block;
\* every predicate that is defined guards a later block of the scope (the
\* header's predicate guards the next iteration)
BlockPrefixes(k, n) ==
  IF k = 1
    THEN {q \in {<<[preds |-> {0}, defs |-> d]>> : d \in NextDefLists({})} :
            Cardinality(Pending(q)) <= n - k + MaxUnusedDefs}
    ELSE UNION {
           {q \in {Append(c, [preds |-> {g}, defs |-> d]) :
                     g \in {0} \cup DefinedBy(c),
                     d \in NextDefLists(DefinedBy(c))} :
              Cardinality(Pending(q)) <= n - k + MaxUnusedDefs} :
           c \in BlockPrefixes(k - 1, n)}

\* the blocks of a scope, numbered from 0
ScopeBlocks(n) ==
  {[i \in 0 .. (n - 1) |-> q[i + 1]] : q \in BlockPrefixes(n, n)}

ScopeFlags(s) ==
  /\ s.isRootTopLevel => s.isTopLevel
  \* the function entry has no incoming edge that defines its predicate
  /\ s.isTopLevel =>
       \A i \in DOMAIN s.blocks : 0 \notin Range(s.blocks[i].defs)

\* insertPredDefinitions is not running
DefsIdle ==
  /\ defs_sorted = <<>>
  /\ defCount = 0
  /\ defLimit = 0
  /\ defMode = [isSubheader |-> FALSE, needsScopeSpill |-> FALSE]
  /\ defCode = <<>>
  /\ defBefore = EmptyMap
  /\ defAfter = EmptyMap
  /\ defPc = "idle"

\* applyPredicates is not running
ApplyIdle ==
  /\ appBlock = EmptyMap
  /\ appCode = <<>>
  /\ appPc = "idle"

\* doPrepareFunction is not running
PrepIdle ==
  /\ prepFunc = EmptyMap
  /\ requiredPreds = <<>>
  /\ numSpillSlotsReq = 0
  /\ ExcessSpillFIs = 0
  /\ prepPc = "idle"

\* no call is looked at
CallIdle ==
  /\ callFuncs = EmptyMap
  /\ callRegs = EmptyMap
  /\ callGuard = FALSE
  /\ callPc = "idle"

\* the reduced code is not executing
ExecIdle ==
  /\ execBlock = 0
  /\ execIdx = 0
  /\ execGuardsReg = 0
  /\ execPRTmp = FALSE
  /\ execSlots = EmptyMap
  /\ hdrCount = EmptyMap
  /\ loopExits = {}
  /\ execPc = "idle"

\* no function is handed to the load eliminator
ElimIdle ==
  /\ elimFunc = EmptyMap
  /\ elimMF = <<>>
  /\ Removables = {}
  /\ BlockInfos = <<>>
  /\ elimCount = 0
  /\ elimPc = "idle"

\* no function is linearized
LinIdle ==
  /\ linFunc = EmptyMap
  /\ linAsserts = FALSE
  /\ linSucc = EmptyMap
  /\ linLayout = <<>>
  /\ LastMBB = 0
  /\ linCounterInit = {}
  /\ linBackEdges = EmptyMap
  /\ linTrace = <<>>
  /\ linIdx = 0
  /\ linPc = "idle"

\* no free set on its own
LocIdle ==
  /\ locSet = {}
  /\ locInserted = {}

\* no scope is scanned
RAIdle ==
  /\ Scope = [blocks |-> EmptyMap, isTopLevel |-> TRUE, isRootTopLevel |-> TRUE]
  /\ LRs = EmptyMap
  /\ DefLocs = EmptyMap
  /\ NumLocs = 0
  /\ UseLocs = EmptyMap
  /\ curLocs = EmptyMap
  /\ FreeLocs = {}
  /\ scanPos = 0
  /\ raPc = "idle"
  /\ ChildrenMaxCumLocs = 0
  /\ FirstUsableReg = 0
  /\ FirstUsableStackSlot = 0
  /\ NeedsScopeSpill = TRUE

\* computeRegAlloc is not running
TreeIdle ==
  /\ scopeParent = EmptyMap
  /\ RAInfos = EmptyMap
  /\ spillLocCnt = 0
  /\ treeIdx = 0
  /\ treePc = "idle"

\* no RAInfo has been constructed yet
InitRA ==
  /\ Scope = [blocks |-> EmptyMap, isTopLevel |-> TRUE, isRootTopLevel |-> TRUE]
  /\ MaxRegs = 1
  /\ LRs = EmptyMap
  /\ DefLocs = EmptyMap
  /\ NumLocs = 0
  /\ UseLocs = EmptyMap
  /\ curLocs = EmptyMap
  /\ FreeLocs = {}
  /\ scanPos = 0
  /\ raPc = "new"
  /\ ChildrenMaxCumLocs = 0
  /\ FirstUsableReg = 0
  /\ FirstUsableStackSlot = 0
  /\ NeedsScopeSpill = TRUE
  /\ TreeIdle
  /\ LocIdle
  /\ LinIdle
  /\ ElimIdle
  /\ DefsIdle
  /\ ApplyIdle
  /\ PrepIdle
  /\ ExecIdle
  /\ CallIdle

\* write the working state of the scan back
ScanResult(s, next) ==
  /\ curLocs' = s.curLocs
  /\ FreeLocs' = s.FreeLocs
  /\ NumLocs' = s.NumLocs
  /\ DefLocs' = s.DefLocs
  /\ UseLocs' = s.UseLocs
  /\ raPc' = IF s.stuck THEN "stuck" ELSE next

\* Impl::Impl(RAInfo*, SPScope*, unsigned availRegs) for a scope and a
\* number of available registers
NewRAInfo ==
  /\ raPc = "new"
  /\ \E n \in 1 .. MaxBlocks : \E b \in ScopeBlocks(n) :
     \E t, r \in BOOLEAN : \E availRegs \in 1 .. MaxRegsBound :
        LET S == [blocks |-> b, isTopLevel |-> t, isRootTopLevel |-> r]
        IN  /\ ScopeFlags(S)
            /\ Scope' = S
            /\ MaxRegs' = availRegs
  /\ raPc' = "create"
  /\ UNCHANGED <<LRs, DefLocs, NumLocs, UseLocs, curLocs, FreeLocs, scanPos,
                 ChildrenMaxCumLocs, FirstUsableReg, FirstUsableStackSlot,
                 NeedsScopeSpill>>
  /\ UNCHANGED otherThanRA

CreateLiveRanges ==
  /\ raPc = "create"
  /\ LRs' = createLiveRanges
  /\ raPc' = "use"
  /\ UNCHANGED <<Scope, MaxRegs, DefLocs, NumLocs, UseLocs, curLocs, FreeLocs,
                 scanPos, ChildrenMaxCumLocs, FirstUsableReg,
                 FirstUsableStackSlot, NeedsScopeSpill>>
  /\ UNCHANGED otherThanRA

\* assignLocations, "(1) handle use" of block scanPos
HandlePredUse ==
  /\ raPc = "use"
  /\ \E s \in handlePredUse(scanPos, ScanState) : ScanResult(s, "defs")
  /\ UNCHANGED <<Scope, MaxRegs, LRs, scanPos, ChildrenMaxCumLocs,
                 FirstUsableReg, FirstUsableStackSlot, NeedsScopeSpill>>
  /\ UNCHANGED otherThanRA

\* assignLocations, "(3) handle definitions" of block scanPos, and i++
HandleDefinitions ==
  /\ raPc = "defs"
  /\ \E s \in handleDefinitions(scanPos, ScanState) :
        ScanResult(s, IF scanPos + 1 < NumBlocks THEN "use" ELSE "header")
  /\ scanPos' = scanPos + 1
  /\ UNCHANGED <<Scope, MaxRegs, LRs, ChildrenMaxCumLocs, FirstUsableReg,
                 FirstUsableStackSlot, NeedsScopeSpill>>
  /\ UNCHANGED otherThanRA

\* assignLocations, after the loop
HeaderLoad ==
  /\ raPc = "header"
  /\ ScanResult(headerLoad(ScanState), "unify")
  /\ UNCHANGED <<Scope, MaxRegs, LRs, scanPos, ChildrenMaxCumLocs,
                 FirstUsableReg, FirstUsableStackSlot, NeedsScopeSpill>>
  /\ UNCHANGED otherThanRA

\* computeRegAlloc for the scanned scope: unifyWithChild for its children
\* (their largest cumulative location count is childCum), then
\* unifyWithParent with a top-level parent that uses parentNumLocs locations
Unify ==
  /\ raPc = "unify"
  /\ \E childCum \in 0 .. MaxRegsBound, parentNumLocs \in 0 .. MaxRegsBound,
        parentSpillLocCnt \in 0 .. 1 :
        LET child  == [NumLocs |-> childCum, ChildrenMaxCumLocs |-> 0]
            parent == [NumLocs |-> parentNumLocs, FirstUsableReg |-> 0]
            a      == unifyWithChild(ThisImpl, child)
            b      == IF Scope.isTopLevel THEN a
                      ELSE unifyWithParent(a, parent, parentSpillLocCnt, Scope.isTopLevel)
        IN  /\ ChildrenMaxCumLocs' = b.ChildrenMaxCumLocs
            /\ FirstUsableReg' = b.FirstUsableReg
            /\ FirstUsableStackSlot' = b.FirstUsableStackSlot
            /\ NeedsScopeSpill' = b.NeedsScopeSpill
  /\ raPc' = "done"
  /\ UNCHANGED <<Scope, MaxRegs, LRs, DefLocs, NumLocs, UseLocs, curLocs,
                 FreeLocs, scanPos>>
  /\ UNCHANGED otherThanRA

NextRA ==
  \/ NewRAInfo
  \/ CreateLiveRanges
  \/ HandlePredUse
  \/ HandleDefinitions
  \/ HeaderLoad
  \/ Unify

SpecRA == InitRA /\ [][NextRA]_vars

(***************************************************************************)
(* Specification SpecTree: RAInfo::computeRegAlloc over a tree of scopes.  *)
(* The constructor of each RAInfo yields the scope's NumLocs.              *)
(***************************************************************************)
RECURSIVE AncestorsOrSelf(_, _)
\* the scope s and the scopes around it
AncestorsOrSelf(par, s) ==
  IF s = 0 THEN {0} ELSE {s} \cup AncestorsOrSelf(par, par[s])

\* the scope trees of n scopes, the scopes numbered in depth-first order:
\* scope 0 is the root, the top-level scope of the function
ScopeTrees(n) ==
  {par \in [0 .. (n - 1) -> 0 .. (n - 1)] :
     /\ par[0] = 0
     /\ \A s \in 1 .. (n - 1) : par[s] < s
     /\ \A s \in 1 .. (n - 1) : par[s] \in AncestorsOrSelf(par, s - 1)}

\* SPScope::child_begin .. child_end
Children(par, s) == {c \in DOMAIN par : c # 0 /\ par[c] = s}

RECURSIVE PostOrderOf(_, _), PostOrderOfAll(_, _)
\* po_begin(s) .. po_end(s): the children's subtrees, then the scope
PostOrderOf(par, s) == PostOrderOfAll(par, Children(par, s)) \o <<s>>

PostOrderOfAll(par, cs) ==
  IF cs = {} THEN <<>>
  ELSE PostOrderOf(par, Min(cs)) \o PostOrderOfAll(par, cs \ {Min(cs)})

RECURSIVE DepthFirstOf(_, _), DepthFirstOfAll(_, _)
\* df_begin(s) .. df_end(s): the scope, then the children's subtrees
DepthFirstOf(par, s) == <<s>> \o DepthFirstOfAll(par, Children(par, s))

DepthFirstOfAll(par, cs) ==
  IF cs = {} THEN <<>>
  ELSE DepthFirstOf(par, Min(cs)) \o DepthFirstOfAll(par, cs \ {Min(cs)})

\* SPScope::isTopLevel in a scope tree
isTopLevel(s) == s = 0

\* the Impl fields after the constructor found that the scope needs numLocs
\* locations
NewImpl(numLocs) ==
  [MaxRegs |-> MaxRegs, NumLocs |-> numLocs, ChildrenMaxCumLocs |-> 0,
   FirstUsableReg |-> 0, FirstUsableStackSlot |-> 0, NeedsScopeSpill |-> TRUE]

RECURSIVE unifyWithChildren(_, _)
\* computeRegAlloc: unifyWithChild for every child of the scope
unifyWithChildren(impl, cs) ==
  IF cs = {} THEN impl
  ELSE unifyWithChildren(unifyWithChild(impl, RAInfos[Min(cs)]), cs \ {Min(cs)})

InitTree ==
  /\ scopeParent \in UNION {ScopeTrees(n) : n \in 1 .. MaxScopes}
  /\ MaxRegs \in 1 .. MaxTreeRegs
  /\ RAInfos = EmptyMap
  /\ spillLocCnt = 0
  /\ treeIdx = 1
  /\ treePc = "po"
  /\ RAIdle
  /\ LocIdle
  /\ LinIdle
  /\ ElimIdle
  /\ DefsIdle
  /\ ApplyIdle
  /\ PrepIdle
  /\ ExecIdle
  /\ CallIdle

\* computeRegAlloc, one iteration of the post-order loop: construct the
\* RAInfo of the scope (a loop has at least the location of its header
\* predicate), then unifyWithChild for its children
PostOrderVisit ==
  /\ treePc = "po"
  /\ LET order == PostOrderOf(scopeParent, 0)
         scope == order[treeIdx]
     IN  /\ \E numLocs \in (IF isTopLevel(scope) THEN 0 ELSE 1) .. MaxScopeLocs :
               RAInfos' = Put(RAInfos, scope,
                  unifyWithChildren(NewImpl(numLocs), Children(scopeParent, scope)))
         /\ IF treeIdx < Len(order)
            THEN treeIdx' = treeIdx + 1 /\ treePc' = "po"
            ELSE treeIdx' = 1 /\ treePc' = "df"
  /\ UNCHANGED <<scopeParent, spillLocCnt>>
  /\ UNCHANGED otherThanTree

\* computeRegAlloc, one iteration of the depth-first loop
DepthFirstVisit ==
  /\ treePc = "df"
  /\ LET order == DepthFirstOf(scopeParent, 0)
         scope == order[treeIdx]
         RI    == IF ~isTopLevel(scope)
                  THEN unifyWithParent(RAInfos[scope], RAInfos[scopeParent[scope]],
                                       spillLocCnt, isTopLevel(scope))
                  ELSE RAInfos[scope]
     IN  /\ RAInfos' = [RAInfos EXCEPT ![scope] = RI]
         /\ spillLocCnt' = spillLocCnt + neededSpillLocs(RI)
         /\ IF treeIdx < Len(order)
            THEN treeIdx' = treeIdx + 1 /\ treePc' = "df"
            ELSE treeIdx' = treeIdx /\ treePc' = "done"
  /\ UNCHANGED scopeParent
  /\ UNCHANGED otherThanTree

NextTree ==
  \/ PostOrderVisit
  \/ DepthFirstVisit

SpecTree == InitTree /\ [][NextTree]_vars

(***************************************************************************)
(* Specification SpecLoc: a std::set<Location> under operator<, used the   *)
(* way the scan uses FreeLocs (insert, and begin/erase in getAvailLoc)     *)
(***************************************************************************)
Locations == {Location(ty, i) : ty \in {Register, Stack}, i \in 0 .. MaxLocIdx}

InitLoc ==
  /\ locSet = {}
  /\ locInserted = {}
  /\ MaxRegs = 1
  /\ RAIdle
  /\ TreeIdle
  /\ LinIdle
  /\ ElimIdle
  /\ DefsIdle
  /\ ApplyIdle
  /\ PrepIdle
  /\ ExecIdle
  /\ CallIdle

\* FreeLocs.insert(l)
LocInsert ==
  /\ \E l \in Locations :
        /\ locSet' = SetInsert(locSet, l)
        /\ locInserted' = locInserted \cup {l}
  /\ UNCHANGED otherThanLoc

\* getAvailLoc on a set that is not empty: it = begin(), erase(it)
LocEraseBegin ==
  /\ locSet # {}
  /\ locSet' = locSet \ {SetBegin(locSet)}
  /\ locInserted' = locInserted \ {SetBegin(locSet)}
  /\ UNCHANGED otherThanLoc

NextLoc ==
  \/ LocInsert
  \/ LocEraseBegin

SpecLoc == InitLoc /\ [][NextLoc]_vars

(***************************************************************************)
(* Claims checked under SpecLoc                                            *)
(***************************************************************************)
\* C9: on the locations handed to the free set operator< orders every
\* Register location before every Stack location and locations of one type
\* by index (a strict weak order); the set holds every distinct location
\* inserted and not erased, and its begin() is a register whenever it holds
\* one.
C9_LocationOrdering ==
  /\ \A l, r \in locInserted :
        LocLess(l, r) <=>
           \/ l.type = Register /\ r.type = Stack
           \/ l.type = r.type /\ l.loc < r.loc
  /\ \A l, r \in locInserted : LocEquiv(l, r) => l = r
  /\ locInserted \subseteq locSet
  /\ (\E l \in locSet : l.type = Register) => SetBegin(locSet).type = Register

(***************************************************************************)
(* Claims checked under SpecTree                                           *)
(***************************************************************************)
\* the unified register indices the scope's locations are in: getAvailLoc
\* hands out the registers 0, 1, .. below MaxRegs first
UsedRegs(s) ==
  {unifyRegister(RAInfos[s], idx) :
     idx \in {k \in 0 .. (RAInfos[s].NumLocs - 1) : k < MaxRegs}}

\* the largest element of a set of naturals, 0 for the empty set
Max(S) == IF S = {} THEN 0 ELSE CHOOSE x \in S : \A y \in S : y <= x

RECURSIVE CumLocs(_)
\* NumLocs(s) + the maximum CumLocs over the children of s
CumLocs(s) ==
  RAInfos[s].NumLocs + Max({CumLocs(c) : c \in Children(scopeParent, s)})

\* the scopes other than the top-level scope
InnerScopes == DOMAIN scopeParent \ {0}

C4_NeedsScopeSpillIff ==
  treePc = "done" =>
    /\ RAInfos[0].NeedsScopeSpill
    /\ \A s \in InnerScopes :
          ~RAInfos[s].NeedsScopeSpill <=>
             RAInfos[scopeParent[s]].NumLocs + CumLocs(s) <= MaxRegs

C4_Witness ==
  /\ treePc = "done"
  /\ \E s, u \in InnerScopes :
        /\ ~RAInfos[s].NeedsScopeSpill
        /\ RAInfos[scopeParent[s]].NumLocs + CumLocs(s) = MaxRegs
        /\ RAInfos[u].NeedsScopeSpill
        /\ RAInfos[scopeParent[u]].NumLocs + RAInfos[u].NumLocs <= MaxRegs

\* C5 (as claimed): after computeRegAlloc every scope S other than the
\* top-level scope has FirstUsableReg(S) = FirstUsableReg(P) + NumLocs(P),
\* also a scope that needs a scope spill.
C5_FirstUsableRegAlways ==
  treePc = "done" =>
    \A s \in InnerScopes :
       RAInfos[s].FirstUsableReg =
          RAInfos[scopeParent[s]].FirstUsableReg + RAInfos[scopeParent[s]].NumLocs

\* C5 (amended): after computeRegAlloc a scope S other than the top-level
\* scope that needs no scope spill has
\* FirstUsableReg(S) = FirstUsableReg(P) + NumLocs(P); a scope that needs a
\* scope spill, and the top-level scope, have FirstUsableReg = 0.
C5_FirstUsableReg ==
  treePc = "done" =>
    /\ RAInfos[0].FirstUsableReg = 0
    /\ \A s \in InnerScopes :
          RAInfos[s].FirstUsableReg =
             IF RAInfos[s].NeedsScopeSpill THEN 0
             ELSE RAInfos[scopeParent[s]].FirstUsableReg
                    + RAInfos[scopeParent[s]].NumLocs

C5_Witness ==
  /\ treePc = "done"
  /\ \E s, u \in InnerScopes :
        /\ ~RAInfos[s].NeedsScopeSpill
        /\ RAInfos[scopeParent[s]].FirstUsableReg > 0
        /\ RAInfos[u].NeedsScopeSpill
        /\ RAInfos[scopeParent[u]].NumLocs > 0
        /\ RAInfos[u].FirstUsableReg = 0

(***************************************************************************)
(* Specification SpecLin: LinearizeWalker over the scope tree of a         *)
(* function (RootScope->walk(LW) in doReduceFunction)                      *)
(***************************************************************************)
\* the scopes of the function f
LinScopes(f) == DOMAIN f.parent

RECURSIVE BlocksBefore(_, _)
\* the number of blocks of the scopes before s
BlocksBefore(f, s) == IF s = 0 THEN 0 ELSE f.nb[s - 1] + BlocksBefore(f, s - 1)

\* the k-th own block of scope s; the first one is the header
BlockOf(f, s, k) == BlocksBefore(f, s) + k

\* SPScope::getHeader()->getMBB()
HeaderMBB(f, s) == BlockOf(f, s, 1)

\* the number of blocks of the function before it is linearized
NumOrigBlocks(f) == BlocksBefore(f, Cardinality(LinScopes(f)))

\* the successors the blocks have before linearization: the block that
\* follows, and the loop header from the last block of a loop
OrigSucc(f, b) ==
  {c \in 1 .. NumOrigBlocks(f) : c = b + 1}
    \cup {HeaderMBB(f, s) : s \in {x \in LinScopes(f) \ {0} : BlockOf(f, x, f.nb[x]) = b}}

\* the functions that are linearized
LinFuncs ==
  {f \in UNION {[parent : ScopeTrees(n),
                 nb : [0 .. (n - 1) -> 1 .. MaxOwnBlocks],
                 needsScopeSpill : [0 .. (n - 1) -> BOOLEAN],
                 hasLoopBound : [0 .. (n - 1) -> BOOLEAN]] : n \in 1 .. MaxLinScopes} :
     \* neither is read for the top-level scope
     f.needsScopeSpill[0] /\ f.hasLoopBound[0]}

RECURSIVE WalkOf(_, _), WalkOfAll(_, _)
\* SPScope::walk: enterSubscope, the blocks in topological order (the walk
\* of the inner scope for a subheader), exitSubscope
WalkOf(f, s) ==
  <<[ev |-> "enter", scope |-> s], [ev |-> "block", mbb |-> HeaderMBB(f, s)]>>
    \o WalkOfAll(f, Children(f.parent, s))
    \o [k \in 1 .. (f.nb[s] - 1) |-> [ev |-> "block", mbb |-> BlockOf(f, s, k + 1)]]
    \o <<[ev |-> "exit", scope |-> s]>>

WalkOfAll(f, cs) ==
  IF cs = {} THEN <<>>
  ELSE WalkOf(f, Min(cs)) \o WalkOfAll(f, cs \ {Min(cs)})

\* the state the walker works on
LinState ==
  [succ |-> linSucc, layout |-> linLayout, LastMBB |-> LastMBB,
   counterInit |-> linCounterInit, backEdges |-> linBackEdges, aborted |-> FALSE]

\* MF.CreateMachineBasicBlock(); MF.push_back(MBB): the number of the block
CreateMachineBasicBlock(w) == Len(w.layout) + 1

\* the state after MF.push_back of a block created by CreateMachineBasicBlock
push_back(w) ==
  [w EXCEPT !.succ = Put(@, CreateMachineBasicBlock(w), {}),
            !.layout = Append(@, CreateMachineBasicBlock(w))]

\* the sequence q without the element x
Without(q, x) == SelectSeq(q, LAMBDA y : y # x)

\* MBB->moveAfter(After)
moveAfter(layout, MBB, After) ==
  LET rest == Without(layout, MBB)
      at   == CHOOSE j \in 1 .. Len(rest) : rest[j] = After
  IN  SubSeq(rest, 1, at) \o <<MBB>> \o SubSeq(rest, at + 1, Len(rest))

\* nextMBB that keeps the successors of the block
nextMBBKeepSuccessors(w, MBB) ==
  LET b == IF w.LastMBB # 0
           THEN [w EXCEPT !.succ[w.LastMBB] = @ \cup {MBB},
                          !.layout = moveAfter(@, MBB, w.LastMBB)]
           ELSE w
  IN  [b EXCEPT !.LastMBB = MBB]

\* LinearizeWalker::nextMBB
nextMBB(w, MBB) ==
  LET a == [w EXCEPT !.succ[MBB] = {}]
      b == IF a.LastMBB # 0
           THEN [a EXCEPT !.succ[a.LastMBB] = @ \cup {MBB},
                          !.layout = moveAfter(@, MBB, a.LastMBB)]
           ELSE a
  IN  [b EXCEPT !.LastMBB = MBB]

\* an enterSubscope that returns for every scope
enterSubscopeNoPreheader(w, f, S) == w

\* LinearizeWalker::enterSubscope
enterSubscope(w, f, S) ==
  IF isTopLevel(S) THEN w
  ELSE LET PrehdrMBB == CreateMachineBasicBlock(w)
           a == push_back(w)
           b == IF f.hasLoopBound[S]
                THEN [a EXCEPT !.counterInit = @ \cup {S}]
                ELSE a
       IN  nextMBB(b, PrehdrMBB)

\* LinearizeWalker::exitSubscope; asserts tells whether assert() is compiled in
exitSubscope(w, f, S, asserts) ==
  IF isTopLevel(S) THEN w
  ELSE LET BranchMBB == CreateMachineBasicBlock(w)
           a == nextMBB(push_back(w), BranchMBB)
       IN  IF asserts /\ ~f.hasLoopBound[S]
           THEN [a EXCEPT !.aborted = TRUE]
           ELSE LET b == [a EXCEPT !.backEdges = Put(@, S, BranchMBB),
                                   !.succ[BranchMBB] = @ \cup {HeaderMBB(f, S)}]
                IN  IF f.needsScopeSpill[S]
                    THEN nextMBB(push_back(b), CreateMachineBasicBlock(b))
                    ELSE b

InitLin ==
  /\ linFunc \in LinFuncs
  /\ linAsserts \in BOOLEAN
  /\ linSucc = [b \in 1 .. NumOrigBlocks(linFunc) |-> OrigSucc(linFunc, b)]
  /\ linLayout = [b \in 1 .. NumOrigBlocks(linFunc) |-> b]
  /\ LastMBB = 0
  /\ linCounterInit = {}
  /\ linBackEdges = EmptyMap
  /\ linTrace = <<>>
  /\ linIdx = 1
  /\ linPc = "walk"
  /\ MaxRegs = 1
  /\ RAIdle
  /\ TreeIdle
  /\ LocIdle
  /\ ElimIdle
  /\ DefsIdle
  /\ ApplyIdle
  /\ PrepIdle
  /\ ExecIdle
  /\ CallIdle

\* the step of the walk that is due
LinEvent == WalkOf(linFunc, 0)[linIdx]

\* write the walker's state back and advance the walk
LinResult(w) ==
  /\ linSucc' = w.succ
  /\ linLayout' = w.layout
  /\ LastMBB' = w.LastMBB
  /\ linCounterInit' = w.counterInit
  /\ linBackEdges' = w.backEdges
  /\ linTrace' = Append(linTrace, [call |-> LinEvent,
                                   created |-> Range(w.layout) \ Range(linLayout)])
  /\ linIdx' = linIdx + 1
  /\ linPc' = IF w.aborted THEN "aborted"
              ELSE IF linIdx = Len(WalkOf(linFunc, 0)) THEN "done"
              ELSE "walk"
  /\ UNCHANGED <<linFunc, linAsserts>>
  /\ UNCHANGED otherThanLin

EnterSubscope ==
  /\ linPc = "walk"
  /\ LinEvent.ev = "enter"
  /\ LinResult(enterSubscope(LinState, linFunc, LinEvent.scope))

NextMBB ==
  /\ linPc = "walk"
  /\ LinEvent.ev = "block"
  /\ LinResult(nextMBB(LinState, LinEvent.mbb))

ExitSubscope ==
  /\ linPc = "walk"
  /\ LinEvent.ev = "exit"
  /\ LinResult(exitSubscope(LinState, linFunc, LinEvent.scope, linAsserts))

NextLin ==
  \/ EnterSubscope
  \/ NextMBB
  \/ ExitSubscope

SpecLin == InitLin /\ [][NextLin]_vars

(***************************************************************************)
(* The code that touches GuardsReg in a reduced function                   *)
(***************************************************************************)
\* PMFI.getSinglePathS0SpillFI(slot)
S0SpillFI(slot) == <<"S0Spill", slot>>

\* PMFI.getSinglePathLoopCntFI(slot)
LoopCntFI(slot) == <<"LoopCnt", slot>>

\* getStackLocPair: PMFI.getSinglePathExcessSpillFI(stloc / 32), the
\* function having fewer than 32 stack locations
ExcessSpillFI == <<"ExcessSpill", 0>>

NoFI == <<"none", 0>>

\* LWC/LBC GuardsReg = [fi] under the default predicate
Load(fi) == [op |-> "load", fi |-> fi, dummy |-> FALSE]

\* the load that enterSubscope inserts and hands to addRemovableInst
DummyLoad(fi) == [op |-> "load", fi |-> fi, dummy |-> TRUE]

\* SWC/SBC [fi] = GuardsReg
Store(fi) == [op |-> "store", fi |-> fi, dummy |-> FALSE]

\* an instruction other than a load that defines GuardsReg: LIi/LIl,
\* SUBi, ORi/ANDl, BCOPY, PAND, the copy from S0
Write == [op |-> "write", fi |-> NoFI, dummy |-> FALSE]

\* a call of the original code
Call == [op |-> "call", fi |-> NoFI, dummy |-> FALSE]

\* insertPredicateLoad: LWC GuardsReg = [fi]; BTESTI preg = GuardsReg
insertPredicateLoad == <<Load(ExcessSpillFI)>>

\* insertUseSpillLoad: for a use that is spilled first, load the slot,
\* set or clear the bit, store the slot; then the predicate load
insertUseSpillLoad(spill) ==
  (IF spill
     THEN <<Load(ExcessSpillFI), Write, Store(ExcessSpillFI)>>
     ELSE <<>>) \o insertPredicateLoad

\* insertStackLocInitializations: LWC; ANDl ~mask; SWC at the header
insertStackLocInitializations ==
  <<Load(ExcessSpillFI), Write, Store(ExcessSpillFI)>>

\* insertDefToStackLoc: LWC; the bit of the predicate; SWC
insertDefToStackLoc ==
  <<Load(ExcessSpillFI), Write, Store(ExcessSpillFI)>>

\* insertDefToS0SpillSlot: LBC; the bit of the predicate; SBC
insertDefToS0SpillSlot(slot) ==
  <<Load(S0SpillFI(slot)), Write, Store(S0SpillFI(slot))>>

\* the kinds of a header block and of a block behind the inner loops
HeaderKinds == {"plain", "init", "defS0"}
BlockKinds == {"none", "plain", "call", "load", "spillload", "def"}

\* SPScope::getDepth
getDepth(par, s) == Cardinality(AncestorsOrSelf(par, s)) - 1

\* the instructions of a block of scope s by its kind
BlockInstrs(f, s, kind) ==
  CASE kind = "init" -> insertStackLocInitializations
    [] kind = "defS0" -> insertDefToS0SpillSlot(getDepth(f.parent, s) - 1)
    [] kind = "call" -> <<Call>>
    [] kind = "load" -> insertUseSpillLoad(FALSE)
    [] kind = "spillload" -> insertUseSpillLoad(TRUE)
    [] kind = "def" -> insertDefToStackLoc
    [] OTHER -> <<>>

\* enterSubscope: the instructions of the preheader of loop S
PreheaderInstrs(f, S) ==
  (IF f.ann[S].needsScopeSpill
     THEN <<Write, DummyLoad(S0SpillFI(getDepth(f.parent, S) - 1)),
            Store(S0SpillFI(getDepth(f.parent, S) - 1))>>
     ELSE <<>>)
  \o (IF f.ann[S].preLoad THEN insertPredicateLoad ELSE <<>>)
  \o <<Write, DummyLoad(LoopCntFI(getDepth(f.parent, S) - 1)),
       Store(LoopCntFI(getDepth(f.parent, S) - 1))>>

\* exitSubscope: the instructions of the block that holds the back edge
BranchInstrs(f, S) ==
  (IF f.ann[S].branchLoad THEN insertPredicateLoad ELSE <<>>)
  \o <<Load(LoopCntFI(getDepth(f.parent, S) - 1)), Write,
       Store(LoopCntFI(getDepth(f.parent, S) - 1))>>

\* exitSubscope: the instructions of the postheader of loop S
PostheaderInstrs(f, S) ==
  <<Load(S0SpillFI(getDepth(f.parent, S) - 1))>>
  \o (IF f.ann[S].liveOuts THEN <<Write>> ELSE <<>>)

\* a block of the chain: its instructions, the loop it heads (-1: none) and
\* the loops whose headers it branches back to
MBBOf(instrs, heads, backTo) ==
  [instrs |-> instrs, heads |-> heads, backTo |-> backTo]

RECURSIVE ElimWalk(_, _)
RECURSIVE ElimWalkAll(_, _)
\* the blocks the LinearizeWalker leaves for scope s, in layout order
ElimWalk(f, s) ==
  (IF s = 0 THEN <<>> ELSE <<MBBOf(PreheaderInstrs(f, s), -1, {})>>)
  \o <<MBBOf(BlockInstrs(f, s, f.ann[s].hdr), s, {})>>
  \o ElimWalkAll(f, Ascending(Children(f.parent, s)))
  \o (IF f.ann[s].extra = "none"
        THEN <<>> ELSE <<MBBOf(BlockInstrs(f, s, f.ann[s].extra), -1, {})>>)
  \o (IF s = 0 THEN <<>> ELSE <<MBBOf(BranchInstrs(f, s), -1, {s})>>)
  \o (IF s # 0 /\ f.ann[s].needsScopeSpill
        THEN <<MBBOf(PostheaderInstrs(f, s), -1, {})>> ELSE <<>>)

ElimWalkAll(f, ss) ==
  IF ss = <<>> THEN <<>>
  ELSE ElimWalk(f, Head(ss)) \o ElimWalkAll(f, Tail(ss))

\* the code a scope adds: the kinds of its header and of its block behind
\* the inner loops, RAInfo::needsScopeSpill, whether getLoopLiveOutPRegs
\* is non-empty, whether the header predicate is loaded in the preheader
\* (insertHeaderPredLoadOrCopy) and before the back edge (getLoadLocs)
RootAnns(extras) ==
  [hdr : {"plain", "init"}, extra : extras, needsScopeSpill : {FALSE},
   liveOuts : {FALSE}, preLoad : {FALSE}, branchLoad : {FALSE}]

LoopAnns(extras) ==
  {a \in [hdr : HeaderKinds, extra : extras, needsScopeSpill : BOOLEAN,
          liveOuts : BOOLEAN, preLoad : BOOLEAN, branchLoad : BOOLEAN] :
     /\ a.hdr = "defS0" => a.needsScopeSpill
     /\ a.liveOuts => a.needsScopeSpill}

\* the loops' code: a loop of E has a block behind its inner loops
LoopAnnsPlain == LoopAnns({"none"})
LoopAnnsExtra == LoopAnns(BlockKinds \ {"none"})

\* the scopes that have a block behind their inner loops in a function of
\* n scopes with at most MaxElimBlocks blocks; a function with loops ends
\* in a block of the top-level scope
ExtraBlockSets(n) ==
  {X \in SUBSET (1 .. (n - 1)) : n + 1 + Cardinality(X) <= MaxElimBlocks}

\* the function of scope tree par with the code r of the top-level scope
\* and the code l of the loops
ElimFunc(par, r, l) ==
  [parent |-> par,
   ann |-> [s \in DOMAIN par |-> IF s = 0 THEN r ELSE l[s]]]

\* every instruction gets its identity, the MachineInstr pointer
NumberInstrs(chain) ==
  [i \in DOMAIN chain |->
     [chain[i] EXCEPT !.instrs =
        [k \in DOMAIN chain[i].instrs |->
           [op |-> chain[i].instrs[k].op, fi |-> chain[i].instrs[k].fi,
            dummy |-> chain[i].instrs[k].dummy, id |-> <<i, k>>]]]]

\* the instructions of MF
AllInstrs(MF) ==
  UNION {Range(MF[b].instrs) : b \in DOMAIN MF}

\* MachineBasicBlock::predecessors
Predecessors(MF, b) ==
  {p \in DOMAIN MF :
     \/ p + 1 = b
     \/ MF[b].heads \in MF[p].backTo}

\* MachineBasicBlock::successors
Successors(MF, b) == {q \in DOMAIN MF : b \in Predecessors(MF, q)}

RECURSIVE mergeFromNoSkip(_, _, _, _)
\* a merge that tests the block behind a back edge like every other block
mergeFromNoSkip(MF, I, out, skipTest) ==
  IF I > Len(MF) THEN out
  ELSE IF Cardinality(Predecessors(MF, I)) # 1
    THEN mergeFromNoSkip(MF, I + 1, Append(out, MF[I]), FALSE)
    ELSE mergeFromNoSkip(MF, I + 1,
           [out EXCEPT ![Len(out)] =
              [instrs |-> out[Len(out)].instrs \o MF[I].instrs,
               heads |-> out[Len(out)].heads,
               backTo |-> out[Len(out)].backTo \cup MF[I].backTo]], FALSE)

RECURSIVE mergeFrom(_, _, _, _)
\* mergeMBBs, the loop over the blocks in depth-first order from I on:
\* out are the blocks kept so far, the last of them is BaseMBB unless the
\* block at I is taken as the new base without a test
mergeFrom(MF, I, out, skipTest) ==
  IF I > Len(MF) THEN out
  ELSE IF skipTest \/ Cardinality(Predecessors(MF, I)) # 1
    THEN mergeFrom(MF, I + 1, Append(out, MF[I]), FALSE)
    ELSE LET Base == out[Len(out)]
             merged == [instrs |-> Base.instrs \o MF[I].instrs,
                        heads |-> Base.heads,
                        backTo |-> Base.backTo \cup MF[I].backTo]
             succ_size == (IF I < Len(MF) THEN 1 ELSE 0)
                          + Cardinality(merged.backTo)
         IN  mergeFrom(MF, I + 1, [out EXCEPT ![Len(out)] = merged],
                       succ_size > 1)

\* PatmosSPReduce::mergeMBBs
mergeMBBs(MF) == mergeFrom(MF, 2, <<MF[1]>>, FALSE)

(***************************************************************************)
(* RedundantLdStEliminator                                                 *)
(***************************************************************************)
\* the frame indices the bit vectors range over
ElimFIs ==
  {ExcessSpillFI} \cup {S0SpillFI(d) : d \in 0 .. (MaxElimScopes - 2)}
                  \cup {LoopCntFI(d) : d \in 0 .. (MaxElimScopes - 2)}

\* isUncondLoad: LBC or LWC into TgtReg from a frame index under the
\* default predicate
isUncondLoad(MI) == MI.op = "load"

\* the constructor: a Blockinfo with empty bit vectors for every block
NewBlockInfos(MF) ==
  [b \in DOMAIN MF |-> [LiveFIEntry |-> {}, LiveFIExit |-> {}]]

RECURSIVE transferUnion(_, _, _)
\* a transfer that never resets the bit vector at a load
transferUnion(instrs, livefi, collected_loads) ==
  IF instrs = <<>>
    THEN [livefi |-> livefi, collected_loads |-> collected_loads]
    ELSE IF isUncondLoad(Head(instrs))
      THEN transferUnion(Tail(instrs), livefi \cup {Head(instrs).fi},
                         Put(collected_loads, Head(instrs).id, livefi))
      ELSE transferUnion(Tail(instrs), livefi, collected_loads)

RECURSIVE transfer(_, _, _)
\* findRedundantLoads, the transfer over the instructions of a block: a load
\* is remembered with the bit vector before it, and leaves only its own bit
transfer(instrs, livefi, collected_loads) ==
  IF instrs = <<>>
    THEN [livefi |-> livefi, collected_loads |-> collected_loads]
    ELSE IF isUncondLoad(Head(instrs))
      THEN transfer(Tail(instrs), {Head(instrs).fi},
                    Put(collected_loads, Head(instrs).id, livefi))
      ELSE transfer(Tail(instrs), livefi, collected_loads)

\* findRedundantLoads, the join: the bits set at the exit of every
\* predecessor, none for a block without predecessor
join(MF, BI, b) ==
  IF Predecessors(MF, b) # {}
    THEN {fi \in ElimFIs : \A p \in Predecessors(MF, b) : fi \in BI[p].LiveFIExit}
    ELSE {}

RECURSIVE rpoPass(_, _, _)
\* findRedundantLoads, one round over the blocks in reverse post-order,
\* which is the layout order of the chain, from block b on
rpoPass(MF, b, st) ==
  IF b > Len(MF) THEN st
  ELSE LET livein == join(MF, st.BI, b)
           t == transfer(MF[b].instrs, livein, st.collected_loads)
       IN  rpoPass(MF, b + 1,
             [BI |-> [st.BI EXCEPT ![b] = [LiveFIEntry |-> livein,
                                           LiveFIExit |-> t.livefi]],
              collected_loads |-> t.collected_loads,
              changed |-> \/ st.changed
                          \/ st.BI[b].LiveFIEntry # livein
                          \/ st.BI[b].LiveFIExit # t.livefi])

RECURSIVE rpoRounds(_, _)
\* findRedundantLoads, the do-while loop
rpoRounds(MF, st) ==
  LET r == rpoPass(MF, 1, [st EXCEPT !.changed = FALSE])
  IN  IF r.changed THEN rpoRounds(MF, r) ELSE r

\* findRedundantLoads: the loads whose own bit is set before them
findRedundantLoads(MF, BI) ==
  LET r == rpoRounds(MF, [BI |-> BI, collected_loads |-> EmptyMap,
                          changed |-> FALSE])
  IN  [BI |-> r.BI,
       redundant |-> {id \in DOMAIN r.collected_loads :
                        \E MI \in AllInstrs(MF) :
                          MI.id = id /\ MI.fi \in r.collected_loads[id]}]

RECURSIVE SelectSeq2(_, _)
\* the instructions of a block that are not in the set rem
SelectSeq2(instrs, rem) ==
  IF instrs = <<>> THEN <<>>
  ELSE (IF Head(instrs).id \in rem THEN <<>> ELSE <<Head(instrs)>>)
       \o SelectSeq2(Tail(instrs), rem)

\* a remove that erases every store as well
removeWithStores(MF, rem) ==
  [b \in DOMAIN MF |->
     [MF[b] EXCEPT !.instrs =
        SelectSeq2(MF[b].instrs,
                   rem \cup {MI.id : MI \in {x \in AllInstrs(MF) : x.op = "store"}})]]

\* RedundantLdStEliminator::remove: cnt = Removables.size()
removeCount(rem) == Cardinality(rem)

\* RedundantLdStEliminator::remove: eraseFromParent for every entry of
\* Removables
remove(MF, rem) ==
  [b \in DOMAIN MF |-> [MF[b] EXCEPT !.instrs = SelectSeq2(MF[b].instrs, rem)]]

(***************************************************************************)
(* doReduceFunction from the LinearizeWalker on                            *)
(***************************************************************************)
InitElim ==
  /\ elimFunc = EmptyMap
  /\ elimMF = <<>>
  /\ Removables = {}
  /\ BlockInfos = <<>>
  /\ elimCount = 0
  /\ elimPc = "start"
  /\ MaxRegs = 1
  /\ RAIdle
  /\ TreeIdle
  /\ LocIdle
  /\ LinIdle
  /\ DefsIdle
  /\ ApplyIdle
  /\ PrepIdle
  /\ ExecIdle
  /\ CallIdle

\* RootScope->walk(LW) on a function whose predicate code is inserted: the
\* blocks in layout order, the dummy loads of the preheaders handed to
\* addRemovableInst
Linearize ==
  /\ elimPc = "start"
  /\ \E n \in 1 .. MaxElimScopes :
       \E par \in ScopeTrees(n), E \in ExtraBlockSets(n) :
         \E r \in RootAnns(IF n = 1 THEN BlockKinds
                                     ELSE BlockKinds \ {"none"}) :
           \E l \in [1 .. (n - 1) -> LoopAnnsPlain \cup LoopAnnsExtra] :
             /\ \A s \in 1 .. (n - 1) : (l[s].extra # "none") <=> (s \in E)
             /\ elimFunc' = ElimFunc(par, r, l)
             /\ elimMF' = NumberInstrs(ElimWalk(ElimFunc(par, r, l), 0))
             /\ Removables' =
                  {MI.id : MI \in
                     {x \in AllInstrs(NumberInstrs(
                                ElimWalk(ElimFunc(par, r, l), 0))) : x.dummy}}
  /\ elimPc' = "linearized"
  /\ UNCHANGED <<BlockInfos, elimCount>>
  /\ UNCHANGED otherThanElim

\* mergeMBBs(MF); the eliminator is constructed before the walk, its
\* Blockinfo objects are created when process() starts
MergeMBBs ==
  /\ elimPc = "linearized"
  /\ elimMF' = mergeMBBs(elimMF)
  /\ elimPc' = "merged"
  /\ UNCHANGED <<elimFunc, Removables, BlockInfos, elimCount>>
  /\ UNCHANGED otherThanElim

\* GuardsLdStElim->process(), first half: findRedundantLoads
FindRedundantLoads ==
  /\ elimPc = "merged"
  /\ LET r == findRedundantLoads(elimMF, NewBlockInfos(elimMF))
     IN  /\ BlockInfos' = r.BI
         /\ Removables' = Removables \cup r.redundant
  /\ elimPc' = "found"
  /\ UNCHANGED <<elimFunc, elimMF, elimCount>>
  /\ UNCHANGED otherThanElim

\* GuardsLdStElim->process(), second half: count += remove() behind
\* findRedundantLoads, and count += remove() again with findRedundantStores
\* commented out, on the Removables the first remove() cleared
Remove ==
  /\ elimPc = "found"
  /\ elimMF' = remove(remove(elimMF, Removables), {})
  /\ elimCount' = removeCount(Removables) + removeCount({})
  /\ Removables' = {}
  /\ elimPc' = "removed"
  /\ UNCHANGED <<elimFunc, BlockInfos>>
  /\ UNCHANGED otherThanElim

NextElim ==
  \/ Linearize
  \/ MergeMBBs
  \/ FindRedundantLoads
  \/ Remove

SpecElim == InitElim /\ [][NextElim]_vars

(***************************************************************************)
(* Claims checked under SpecLin                                            *)
(***************************************************************************)
\* the loops of the function
LinLoops == LinScopes(linFunc) \ {0}

\* the block that follows at position i of the layout, if any
ChainSucc(i) == {linLayout[j] : j \in {i + 1} \cap (1 .. Len(linLayout))}

\* the headers of the loops whose back-edge block is m
BackEdgeTargets(m) ==
  {HeaderMBB(linFunc, s) : s \in {x \in DOMAIN linBackEdges : linBackEdges[x] = m}}

\* C6: after the walk of the whole scope tree the blocks form one chain that
\* starts with the entry block, every block but the last has exactly one
\* chain successor, the only other successor edges lead from the back-edge
\* block of each loop to that loop's header, and no block has more than two
\* successors: no successor edge of the original control flow is left.
C6_LinearChain ==
  linPc = "done" =>
    /\ Len(linLayout) = Cardinality(DOMAIN linSucc)
    /\ {linLayout[i] : i \in 1 .. Len(linLayout)} = DOMAIN linSucc
    /\ linLayout[1] = HeaderMBB(linFunc, 0)
    /\ LastMBB = linLayout[Len(linLayout)]
    /\ DOMAIN linBackEdges = LinLoops
    /\ \A i \in 1 .. Len(linLayout) :
          LET m == linLayout[i]
          IN  /\ ChainSucc(i) \subseteq linSucc[m]
              /\ linSucc[m] \ ChainSucc(i) = BackEdgeTargets(m)
              /\ Cardinality(BackEdgeTargets(m)) <= 1
              /\ Cardinality(linSucc[m]) <= 2

C6_Witness ==
  /\ linPc = "done"
  /\ \E s, u \in LinLoops :
        /\ linFunc.parent[u] = s
        /\ linFunc.needsScopeSpill[s] /\ ~linFunc.needsScopeSpill[u]
        /\ linFunc.nb[s] > 1
        /\ OrigSucc(linFunc, HeaderMBB(linFunc, u)) # {}
        /\ Cardinality(linSucc[linBackEdges[u]]) = 2

\* C8: the conversion of a function with a loop scope that has no loop bound
\* never completes (it is rejected), and no back-edge block is emitted for a
\* loop whose counter slot the preheader did not initialise.
C8_UnboundedLoopRejected ==
  /\ \A s \in DOMAIN linBackEdges : s \in linCounterInit
  /\ linPc = "done" => \A s \in LinLoops : linFunc.hasLoopBound[s]

(***************************************************************************)
(* Claims checked under SpecElim                                           *)
(***************************************************************************)
\* what GuardsReg is known to equal after an instruction ran, as the set
\* of frame slots whose content it holds: a load leaves the loaded slot, any
\* other definition of GuardsReg leaves none, a store adds the stored slot,
\* a call keeps the register (it is callee-saved); the dummy loads of the
\* preheaders are erased before the function ever runs
ExecInstr(MI, eq) ==
  CASE MI.op = "load" /\ ~MI.dummy -> {MI.fi}
    [] MI.op = "write" -> {}
    [] MI.op = "store" -> eq \cup {MI.fi}
    [] OTHER -> eq

RECURSIVE ExecSeq(_, _)
ExecSeq(instrs, eq) ==
  IF instrs = <<>> THEN eq
  ELSE ExecSeq(Tail(instrs), ExecInstr(Head(instrs), eq))

RECURSIVE ReachedEntries(_, _)
\* the pairs <<block, slots held>> with which an execution can enter a
\* block, the branch at the end of a loop going either way
ReachedEntries(MF, R) ==
  LET next == R \cup UNION {
                {<<q, ExecSeq(MF[e[1]].instrs, e[2])>> :
                   q \in Successors(MF, e[1])} : e \in R}
  IN  IF next = R THEN R ELSE ReachedEntries(MF, next)

\* the slot sets GuardsReg can hold right before instruction k of block b
HeldBefore(MF, b, k) ==
  {ExecSeq(SubSeq(MF[b].instrs, 1, k - 1), e[2]) :
     e \in {x \in ReachedEntries(MF, {<<1, {}>>}) : x[1] = b}}

\* the loads of MF as <<block, index>>
LoadsOf(MF) ==
  {p \in UNION {{<<b, k>> : k \in DOMAIN MF[b].instrs} : b \in DOMAIN MF} :
     isUncondLoad(MF[p[1]].instrs[p[2]])}

\* the bit vector findRedundantLoads recorded for the load at p
RecordedFor(MF, BI, p) ==
  transfer(SubSeq(MF[p[1]].instrs, 1, p[2]), BI[p[1]].LiveFIEntry,
           EmptyMap).collected_loads[MF[p[1]].instrs[p[2]].id]

\* the loads that findRedundantLoads marks
MarkedLoads ==
  {p \in LoadsOf(elimMF) :
     elimMF[p[1]].instrs[p[2]].fi \in RecordedFor(elimMF, BlockInfos, p)}

\* the code as the walk laid it out: mergeMBBs moves no instruction and
\* leaves every branch where it was, so the processor runs the merged code
\* like the blocks of the walk, each back-edge branch ending its block
Linearized == NumberInstrs(ElimWalk(elimFunc, 0))

\* the slot sets GuardsReg can hold right before the load at p of the merged
\* function, whose identity is its place in the linearized code
HeldAt(p) ==
  HeldBefore(Linearized, elimMF[p[1]].instrs[p[2]].id[1],
             elimMF[p[1]].instrs[p[2]].id[2])

\* GuardsReg holds the content of the slot the load at p reads whenever an
\* execution reaches the load
SlotHeldAt(p) ==
  \A eq \in HeldAt(p) : elimMF[p[1]].instrs[p[2]].fi \in eq

\* C7 as stated: GuardsReg holds the content of the loaded slot at every
\* load that findRedundantLoads marks removable, on every execution path
\* that reaches the load.
C7_EveryMarkedLoadRedundant ==
  elimPc = "found" => \A p \in MarkedLoads : SlotHeldAt(p)

\* C7: at every load that findRedundantLoads marks removable and that is not
\* one of the dummy loads enterSubscope already handed to addRemovableInst,
\* GuardsReg holds the content of the loaded slot on every execution path
\* that reaches the load, so erasing the load leaves GuardsReg as it was.
C7_MarkedLoadRedundant ==
  elimPc = "found" =>
    \A p \in MarkedLoads :
      ~elimMF[p[1]].instrs[p[2]].dummy => SlotHeldAt(p)

\* a function with a loop that spills S0 and merges live-out predicates in
\* its postheader, in which a counter load and a predicate load that an
\* execution reaches are marked, definitions of GuardsReg other than loads
\* lying between the marked load and the load before it
C7_Witness ==
  /\ elimPc = "found"
  /\ \E s \in DOMAIN elimFunc.parent :
       elimFunc.ann[s].needsScopeSpill /\ elimFunc.ann[s].liveOuts
  /\ \E p, q \in MarkedLoads :
       /\ ~elimMF[p[1]].instrs[p[2]].dummy
       /\ ~elimMF[q[1]].instrs[q[2]].dummy
       /\ elimMF[p[1]].instrs[p[2]].fi = ExcessSpillFI
       /\ elimMF[q[1]].instrs[q[2]].fi \in {LoopCntFI(d) : d \in 0 .. MaxElimScopes}
       /\ HeldAt(p) # {}
       /\ HeldAt(q) # {}
       /\ p[2] > 1 /\ elimMF[p[1]].instrs[p[2] - 1].op # "load"


(***************************************************************************)
(* Specification SpecDefs: PatmosSPReduce::insertPredDefinitions for one   *)
(* block. The definitions of the block arrive one at a time; each names    *)
(* the definition location of its predicate, the register of its guard    *)
(* and the edge condition. Two definitions of one block write different    *)
(* locations. SpecSwap also executes the inserted instructions.            *)
(***************************************************************************)
P0 == 0

PRegs == 1 .. NumDefRegs

CondRegs == 1 .. NumCondRegs

\* the bits of a spill word: a stack location or the S0 index of a register
Bits == 0 .. NumDefRegs

NoCond == <<0, FALSE>>

\* PredicateDefinition(type, predicate, guard, condition)
SimpleDef(type, predicate, guard, cond) ==
  [kind |-> "simple", type |-> type, predicate |-> predicate,
   predicate_2 |-> 0, guard |-> guard, conditions |-> <<cond, NoCond>>]

\* PredicateDefinition::is_swap
is_swap(d) == d.kind = "swap"

\* PredicateDefinition::is_simple
is_simple(d) == d.kind = "simple"

\* the registers a definition writes
WrittenRegs(d) ==
  IF is_swap(d) THEN {d.predicate, d.predicate_2}
  ELSE IF d.type = Register THEN {d.predicate} ELSE {}

\* the registers a definition reads as guard
GuardRegs(d) ==
  IF is_swap(d) THEN {d.predicate, d.predicate_2} ELSE {d.guard}

\* the locations a definition writes
WrittenLocs(d) ==
  IF is_swap(d)
  THEN {Location(Register, d.predicate), Location(Register, d.predicate_2)}
  ELSE {Location(d.type, d.predicate)}

\* PredicateDefinition::overwrites_guard_of
overwrites_guard_of(y, x) == WrittenRegs(y) \cap GuardRegs(x) # {}

\* PredicateDefinition::share_predicate_target
share_predicate_target(x, y) ==
  /\ is_simple(x) /\ is_simple(y)
  /\ x.type = y.type
  /\ x.predicate = y.predicate

\* whether PredicateDefinition::merge_into_swap merges: each of the two
\* register definitions writes the guard of the other
mergeable(x, y) ==
  /\ is_simple(x) /\ is_simple(y)
  /\ x.type = Register /\ y.type = Register
  /\ x.predicate # y.predicate
  /\ x.predicate = y.guard
  /\ y.predicate = x.guard

\* PredicateDefinition::merge_into_swap: what x becomes
merge_into_swap(x, y) ==
  [kind |-> "swap", type |-> Register, predicate |-> x.predicate,
   predicate_2 |-> y.predicate, guard |-> P0,
   conditions |-> <<x.conditions[1], y.conditions[1]>>]

\* std::vector::erase
EraseAt(q, i) == SubSeq(q, 1, i - 1) \o SubSeq(q, i + 1, Len(q))

\* std::vector::insert in front of position i
InsertAt(q, i, e) == SubSeq(q, 1, i - 1) \o <<e>> \o SubSeq(q, i, Len(q))

RECURSIVE scanSorted(_, _, _, _, _)
\* insertPredDefinitions: the loop over defs_sorted for the definition x_def,
\* from position iter on; end is the position behind the last entry
scanSorted(sorted, x_def, is_first_pred_def, iter, insert_at) ==
  LET end == Len(sorted) + 1
  IN  IF iter >= end
      THEN [sorted |-> sorted, x_def |-> x_def, first |-> is_first_pred_def,
            insert_at |-> insert_at, failed |-> FALSE]
      ELSE LET y_def == sorted[iter].def
           IN  IF is_swap(y_def)
               THEN IF overwrites_guard_of(x_def, y_def)
                    THEN \* "Definition for predicate that is already part
                         \* of a swap definition"
                         [sorted |-> sorted, x_def |-> x_def,
                          first |-> is_first_pred_def,
                          insert_at |-> insert_at, failed |-> TRUE]
                    ELSE scanSorted(sorted, x_def, is_first_pred_def, iter + 1,
                                    IF overwrites_guard_of(y_def, x_def)
                                    THEN iter ELSE insert_at)
               ELSE IF mergeable(x_def, y_def)
               THEN [sorted |-> EraseAt(sorted, iter),
                     x_def |-> merge_into_swap(x_def, y_def),
                     first |-> is_first_pred_def,
                     insert_at |-> Len(sorted), failed |-> FALSE]
               ELSE IF overwrites_guard_of(y_def, x_def) /\ insert_at = end
               THEN scanSorted(
                      IF share_predicate_target(x_def, y_def)
                      THEN [sorted EXCEPT ![iter].first = FALSE] ELSE sorted,
                      x_def, is_first_pred_def, iter + 1, iter)
               ELSE IF share_predicate_target(x_def, y_def)
               THEN IF insert_at = end
                    THEN scanSorted(sorted, x_def, FALSE, iter + 1, insert_at)
                    ELSE scanSorted([sorted EXCEPT ![iter].first = FALSE],
                                    x_def, is_first_pred_def, iter + 1, insert_at)
               ELSE scanSorted(sorted, x_def, is_first_pred_def, iter + 1,
                               insert_at)

\* insertPredDefinitions: one iteration of "for(auto def: defs)"
sortDefinition(sorted, x_def, is_first_pred_def) ==
  LET r == scanSorted(sorted, x_def, is_first_pred_def, 1, Len(sorted) + 1)
  IN  [sorted |-> InsertAt(r.sorted, r.insert_at,
                           [def |-> r.x_def, first |-> r.first]),
       failed |-> r.failed]

\* one inserted instruction
Instr(op, dst, guard, src, cond) ==
  [op |-> op, dst |-> dst, guard |-> guard, src |-> src, cond |-> cond]

\* a PXOR of a register with itself
insertPXORSelf(r1, r2) == <<Instr("PXOR", r1, P0, r1, NoCond)>>

\* insertPXOR(r1, r2): PXOR r1 = r1, r2
insertPXOR(r1, r2) == <<Instr("PXOR", r1, P0, r2, NoCond)>>

\* insertDefToRegLoc: (guard) PMOV predReg = Cond, or PAND predReg = guard, Cond
insertDefToRegLoc(predReg, guard, Cond, usePmov) ==
  <<Instr(IF usePmov THEN "PMOV" ELSE "PAND", predReg, guard, 0, Cond)>>

\* insertDefToStackLoc with its operands: LWC; (guard) BCOPY bitpos, Cond; SWC
defToStackLoc(stloc, guard, Cond) ==
  <<Instr("LWC", 0, P0, 0, NoCond), Instr("BCOPY", stloc, guard, 0, Cond),
    Instr("SWC", 0, P0, 0, NoCond)>>

\* insertDefToS0SpillSlot with its operands: LBC; (guard) BCOPY; SBC
defToS0SpillSlot(predReg, guard, Cond) ==
  <<Instr("LBC", 0, P0, 0, NoCond), Instr("BCOPY", predReg, guard, 0, Cond),
    Instr("SBC", 0, P0, 0, NoCond)>>

\* PatmosSPReduce::insertDefEdge
insertDefEdge(mode, predType, predLoc, guardLoc, cond, first_def) ==
  IF predType = Register
  THEN IF ~mode.isSubheader \/ ~mode.needsScopeSpill
       THEN insertDefToRegLoc(predLoc, guardLoc, cond,
                              ~first_def \/ mode.isSubheader)
       ELSE defToS0SpillSlot(predLoc, guardLoc, cond)
  ELSE defToStackLoc(predLoc, guardLoc, cond)

\* insertPredDefinitions: the instructions for one entry of defs_sorted
insertEntry(mode, entry) ==
  LET definition == entry.def
  IN  IF is_swap(definition)
      THEN LET pred1 == definition.predicate
               pred2 == definition.predicate_2
           IN  insertPXOR(pred1, pred2) \o insertPXOR(pred2, pred1)
                 \o insertPXOR(pred1, pred2)
                 \o insertDefEdge(mode, Register, pred1, pred1,
                                  definition.conditions[1], TRUE)
                 \o insertDefEdge(mode, Register, pred2, pred2,
                                  definition.conditions[2], TRUE)
      ELSE insertDefEdge(mode, definition.type, definition.predicate,
                         definition.guard, definition.conditions[1],
                         entry.first)

RECURSIVE insertEntries(_, _)
\* insertPredDefinitions: "for(auto entry: defs_sorted)"
insertEntries(mode, sorted) ==
  IF sorted = <<>> THEN <<>>
  ELSE insertEntry(mode, Head(sorted)) \o insertEntries(mode, Tail(sorted))

\* the value of a condition operand pair (register, negation flag)
CondValue(m, cond) == m.conds[cond[1]] # cond[2]

\* what one inserted instruction does to the machine state
ExecDef(m, i) ==
  IF i.op = "PXOR"
    THEN [m EXCEPT !.regs[i.dst] = (m.regs[i.dst] # m.regs[i.src])]
  ELSE IF i.op = "PAND"
    THEN [m EXCEPT !.regs[i.dst] = (m.regs[i.guard] /\ CondValue(m, i.cond))]
  ELSE IF i.op = "PMOV"
    THEN IF m.regs[i.guard]
         THEN [m EXCEPT !.regs[i.dst] = CondValue(m, i.cond)] ELSE m
  ELSE IF i.op = "BCOPY"
    THEN IF m.regs[i.guard]
         THEN [m EXCEPT !.tmp[i.dst] = CondValue(m, i.cond)] ELSE m
  ELSE IF i.op = "LWC" THEN [m EXCEPT !.tmp = m.stack]
  ELSE IF i.op = "SWC" THEN [m EXCEPT !.stack = m.tmp]
  ELSE IF i.op = "LBC" THEN [m EXCEPT !.tmp = m.s0]
  ELSE [m EXCEPT !.s0 = m.tmp]

RECURSIVE ExecDefs(_, _)
ExecDefs(m, code) ==
  IF code = <<>> THEN m ELSE ExecDefs(ExecDef(m, Head(code)), Tail(code))

\* the definitions a block may hand to insertPredDefinitions
BlockDefs ==
  {SimpleDef(l.type, l.loc, g, <<c, f>>) :
     l \in {Location(Register, r) : r \in PRegs}
            \cup {Location(Stack, k) : k \in 0 .. (NumStackLocs - 1)},
     g \in {P0} \cup PRegs, c \in CondRegs, f \in BOOLEAN}

\* the locations the entries of defs_sorted write
SortedLocs(sorted) ==
  UNION {WrittenLocs(sorted[i].def) : i \in DOMAIN sorted}

InitDefsWith(limit) ==
  /\ defs_sorted = <<>>
  /\ defCount = 0
  /\ defLimit = limit
  /\ defMode = [isSubheader |-> FALSE, needsScopeSpill |-> FALSE]
  /\ defCode = <<>>
  /\ defBefore = EmptyMap
  /\ defAfter = EmptyMap
  /\ defPc = "sort"
  /\ MaxRegs = 1
  /\ RAIdle
  /\ TreeIdle
  /\ LocIdle
  /\ LinIdle
  /\ ElimIdle
  /\ ApplyIdle
  /\ PrepIdle
  /\ ExecIdle
  /\ CallIdle

InitDefs == InitDefsWith(MaxBlockDefs)

InitSwap == InitDefsWith(MaxSwapDefs)

\* insertPredDefinitions: the next definition of the block is sorted in
SortDefinition ==
  /\ defPc = "sort"
  /\ defCount < defLimit
  /\ \E def \in BlockDefs : \E isFirstDef \in BOOLEAN :
       /\ WrittenLocs(def) \cap SortedLocs(defs_sorted) = {}
       /\ LET r == sortDefinition(defs_sorted, def, isFirstDef)
          IN  /\ defs_sorted' = r.sorted
              /\ defPc' = IF r.failed THEN "assert" ELSE "sort"
  /\ defCount' = defCount + 1
  /\ UNCHANGED <<defLimit, defMode, defCode, defBefore, defAfter>>
  /\ UNCHANGED otherThanDefs

\* insertPredDefinitions: the instructions for the sorted definitions
InsertDefinitions ==
  /\ defPc = "sort"
  /\ \E sub, spill \in BOOLEAN :
       /\ spill => sub
       /\ defMode' = [isSubheader |-> sub, needsScopeSpill |-> spill]
       /\ defCode' = insertEntries(defMode', defs_sorted)
  /\ defPc' = "emitted"
  /\ UNCHANGED <<defs_sorted, defCount, defLimit, defBefore, defAfter>>
  /\ UNCHANGED otherThanDefs

\* the inserted instructions run from some machine state
ExecuteDefinitions ==
  /\ defPc = "emitted"
  /\ \E regs \in [PRegs -> BOOLEAN], conds \in [CondRegs -> BOOLEAN],
        mem \in BOOLEAN :
        LET m == [regs |-> [r \in {P0} \cup PRegs |-> IF r = P0 THEN TRUE ELSE regs[r]],
                  conds |-> conds,
                  tmp |-> [b \in Bits |-> FALSE],
                  stack |-> [b \in Bits |-> mem],
                  s0 |-> [b \in Bits |-> mem]]
        IN  /\ defBefore' = m
            /\ defAfter' = ExecDefs(m, defCode)
  /\ defPc' = "executed"
  /\ UNCHANGED <<defs_sorted, defCount, defLimit, defMode, defCode>>
  /\ UNCHANGED otherThanDefs

NextDefs ==
  \/ SortDefinition
  \/ InsertDefinitions

SpecDefs == InitDefs /\ [][NextDefs]_vars

NextSwap ==
  \/ SortDefinition
  \/ InsertDefinitions
  \/ ExecuteDefinitions

SpecSwap == InitSwap /\ [][NextSwap]_vars

(***************************************************************************)
(* Specification SpecApply: PatmosSPReduce::applyPredicates for one block  *)
(* of a scope. The block is a list of instructions in front of its first   *)
(* terminator; each carries its predicate operand (register, negation      *)
(* flag) and the register predRegs holds for its instruction predicate.    *)
(***************************************************************************)
\* the register allocated to the guard of the block
GuardReg == 1

\* a predicate register of the user's code
UserReg == 2

\* PRTmp: the last available predicate register, kept out of the allocation
PRTmp == 3

\* the bit of the guard in its spill word
GuardBit == 4

AlwaysTrue == <<P0, FALSE>>

\* the instructions applyPredicates passes over
SkippedKinds == {"return", "stackControl", "frameSetup", "returnInfo"}

\* an instruction of the block as applyPredicates finds it
OrigInstr(kind, predicable, po, predReg) ==
  [id |-> 0, op |-> "orig", kind |-> kind, predicable |-> predicable,
   po |-> po, predReg |-> predReg, dst |-> 0, a |-> AlwaysTrue,
   b |-> AlwaysTrue]

\* an instruction built by AddDefaultPred(BuildMI(...)) for an instruction
\* whose predicate register is predReg
NewInstr(op, dst, a, b, predReg) ==
  [id |-> 0, op |-> op, kind |-> "plain", predicable |-> TRUE,
   po |-> AlwaysTrue, predReg |-> predReg, dst |-> dst, a |-> a, b |-> b]

\* the instructions a block may hold: a call is not predicated, and an
\* instruction that is not predicable has no predicate operand
InstrInputs ==
  {OrigInstr("plain", TRUE, <<r, f>>, g) :
     r \in {P0, GuardReg, UserReg}, f \in BOOLEAN, g \in {P0, GuardReg}}
  \cup {OrigInstr("plain", FALSE, AlwaysTrue, g) : g \in {P0, GuardReg}}
  \cup {OrigInstr("call", FALSE, AlwaysTrue, g) : g \in {P0, GuardReg}}
  \cup {OrigInstr(k, TRUE, <<r, f>>, GuardReg) :
          k \in SkippedKinds, r \in {P0, GuardReg, UserReg}, f \in BOOLEAN}
  \cup {OrigInstr(k, FALSE, AlwaysTrue, GuardReg) : k \in SkippedKinds}

\* applyPredicates: the lambda isPredicated
isPredicated(instr) == instr.po[1] # P0 \/ instr.po[2]

\* a PAND with the negated predicate operand
buildPANDNegated(predReg, po) ==
  NewInstr("PAND", PRTmp, <<predReg, FALSE>>, <<po[1], ~po[2]>>, predReg)

\* applyPredicates: PAND PRTmp = predReg, PO1, PO2
buildPAND(predReg, po) ==
  NewInstr("PAND", PRTmp, <<predReg, FALSE>>, po, predReg)

\* "continue" alone: the reload is the next instruction looked at
afterCallNoSkip(MI) == MI + 3

\* applyPredicates, call: "++MI; continue" passes the call and the reload
afterCall(MI) == MI + 4

RECURSIVE applyInstrs(_, _, _)
\* applyPredicates: the loop from MI to ME over the instructions of the block
applyInstrs(code, MI, ME) ==
  IF MI >= ME THEN code
  ELSE LET I == code[MI]
           predReg == I.predReg
       IN  IF I.kind \in SkippedKinds
           THEN applyInstrs(code, MI + 1, ME)
           ELSE IF I.kind = "call"
           THEN applyInstrs(
                  SubSeq(code, 1, MI - 1)
                    \o <<NewInstr("PMOV", PRTmp, <<predReg, FALSE>>,
                                  AlwaysTrue, predReg),
                         NewInstr("SWC", 0, AlwaysTrue, AlwaysTrue, predReg),
                         I,
                         NewInstr("LWC", 0, AlwaysTrue, AlwaysTrue, predReg)>>
                    \o SubSeq(code, MI + 1, Len(code)),
                  afterCall(MI), ME + 3)
           ELSE IF I.predicable /\ predReg # P0
           THEN IF ~isPredicated(I)
                THEN applyInstrs([code EXCEPT ![MI].po = <<predReg, FALSE>>],
                                 MI + 1, ME)
                ELSE IF I.po # <<predReg, FALSE>>
                THEN applyInstrs(
                       SubSeq(code, 1, MI - 1)
                         \o <<buildPAND(predReg, I.po),
                              [I EXCEPT !.po = <<PRTmp, FALSE>>]>>
                         \o SubSeq(code, MI + 1, Len(code)),
                       MI + 2, ME + 1)
                ELSE applyInstrs(code, MI + 1, ME)
           ELSE applyInstrs(code, MI + 1, ME)

\* insertUseSpillLoad: the guard is loaded from its stack location in front
\* of the first instruction of the block
insertUseSpillLoadAt(code) ==
  <<NewInstr("LWC", 0, AlwaysTrue, AlwaysTrue, GuardReg),
    NewInstr("BTESTI", GuardReg, <<GuardBit, FALSE>>, AlwaysTrue, GuardReg)>>
    \o code

\* the first instruction behind the frame setup
afterFrameSetup(code) ==
  IF \E i \in DOMAIN code : code[i].kind # "frameSetup"
  THEN CHOOSE i \in DOMAIN code :
         /\ code[i].kind # "frameSetup"
         /\ \A j \in 1 .. (i - 1) : code[j].kind = "frameSetup"
  ELSE Len(code) + 1

\* applyPredicates: the header of a reachable function takes its predicate
\* from the caller: PMOV predReg = PRTmp
insertHeaderPMOV(code) ==
  InsertAt(code, afterFrameSetup(code),
           NewInstr("PMOV", GuardReg, <<PRTmp, FALSE>>, AlwaysTrue, GuardReg))

\* PatmosSPReduce::applyPredicates for one block
applyPredicates(block) ==
  LET predicated == applyInstrs(block.instrs, 1, Len(block.instrs) + 1)
      loaded == IF ~block.isHeader /\ block.hasSpillLoad
                THEN insertUseSpillLoadAt(predicated) ELSE predicated
  IN  IF block.isReachableTopLevel /\ block.isHeader
      THEN insertHeaderPMOV(loaded) ELSE loaded

\* the value of a predicate operand pair under register values m
OperandValue(m, po) == m[po[1]] # po[2]

\* whether the instruction at position k executes
Executes(m, code, k) == OperandValue(m, code[k].po)

\* the register values behind the instruction at position k
ExecApplied(m, code, k) ==
  LET i == code[k]
  IN  IF ~Executes(m, code, k) THEN m
      ELSE IF i.op \in {"PMOV", "BTESTI"}
        THEN [m EXCEPT ![i.dst] = OperandValue(m, i.a)]
      ELSE IF i.op = "PAND"
        THEN [m EXCEPT ![i.dst] = OperandValue(m, i.a) /\ OperandValue(m, i.b)]
      ELSE m

RECURSIVE RegsAt(_, _, _)
\* the register values in front of the instruction at position k
RegsAt(m, code, k) ==
  IF k = 1 THEN m ELSE ExecApplied(RegsAt(m, code, k - 1), code, k - 1)

\* the register values a block can start with; P0 is always true
RegValues ==
  {m \in [{P0, GuardReg, UserReg, PRTmp, GuardBit} -> BOOLEAN] : m[P0]}

InitApply ==
  /\ appBlock = [instrs |-> <<>>, isHeader |-> FALSE, hasSpillLoad |-> FALSE,
                 isReachableTopLevel |-> FALSE]
  /\ appCode = <<>>
  /\ appPc = "block"
  /\ MaxRegs = 1
  /\ RAIdle
  /\ TreeIdle
  /\ LocIdle
  /\ LinIdle
  /\ ElimIdle
  /\ DefsIdle
  /\ PrepIdle
  /\ ExecIdle
  /\ CallIdle

\* the block handed to applyPredicates has one more instruction; id is the
\* position of the instruction in the block
AddInstruction ==
  /\ appPc = "block"
  /\ Len(appBlock.instrs) < MaxInstrs
  /\ \E I \in InstrInputs :
       appBlock' = [appBlock EXCEPT
                      !.instrs = Append(@, [I EXCEPT
                                            !.id = Len(appBlock.instrs) + 1])]
  /\ UNCHANGED <<appCode, appPc>>
  /\ UNCHANGED otherThanApply

\* applyPredicates runs on the block
ApplyPredicates ==
  /\ appPc = "block"
  /\ \E header, spillLoad, reachable \in BOOLEAN :
       /\ appBlock' = [appBlock EXCEPT !.isHeader = header,
                                       !.hasSpillLoad = spillLoad,
                                       !.isReachableTopLevel = reachable]
       /\ appCode' = applyPredicates(appBlock')
  /\ appPc' = "done"
  /\ UNCHANGED otherThanApply

NextApply ==
  \/ AddInstruction
  \/ ApplyPredicates

SpecApply == InitApply /\ [][NextApply]_vars

(***************************************************************************)
(* Specification SpecPrepare: PatmosSPPrepare::doPrepareFunction reserves  *)
(* the excess spill slots of a function, RAInfo::computeRegAlloc numbers   *)
(* the stack locations of its scopes.  The function is a top-level scope   *)
(* with a row of loops, some of which hold an inner loop.                  *)
(***************************************************************************)
\* the functions: loops is the number of loops below the top-level scope,
\* the first inner of them hold one inner loop; every loop has preds
\* predicates, and its scan allocates numLocs locations: one per predicate,
\* and one more if a predicate that was defined on the stack is reloaded
\* and evicts a register holder
PrepFuncs ==
  {f \in [loops : 0 .. MaxLoops, inner : 0 .. MaxInnerLoops,
          preds : 1 .. MaxPrepPreds, numLocs : 1 .. (MaxPrepPreds + 1)] :
     /\ f.inner <= f.loops
     /\ f.preds <= f.numLocs
     /\ f.numLocs <= f.preds + (IF f.preds > MaxRegs THEN 1 ELSE 0)}

\* the scope tree of a function, the scopes numbered in depth-first order
PrepParent(f) ==
  [s \in 0 .. (f.loops + f.inner) |->
     IF s = 0 THEN 0
     ELSE IF s <= 2 * f.inner /\ s % 2 = 0 THEN s - 1
     ELSE 0]

\* SPScope::getNumPredicates: the top-level scope has its header predicate
getNumPredicates(f, s) == IF s = 0 THEN 1 ELSE f.preds

\* the NumLocs the RAInfo constructor finds for a scope: the header of the
\* single-path root uses P0
ScopeNumLocs(f, s) == IF s = 0 THEN 0 ELSE f.numLocs

\* getNumUnusedPRegs: the registers doReduceFunction puts into AvailPredRegs,
\* one of which becomes PRTmp
getNumUnusedPRegs == MaxRegs + 1

RECURSIVE requiredPredsLoop(_, _, _, _)
\* doPrepareFunction, "for all (sub-)SPScopes"
requiredPredsLoop(f, par, order, req) ==
  IF order = <<>> THEN req
  ELSE LET scope == Head(order)
           preds == getNumPredicates(f, scope)
           d     == getDepth(par, scope)
       IN  requiredPredsLoop(f, par, Tail(order),
             IF d + 1 > Len(req) THEN Append(req, preds)
             ELSE IF req[d + 1] < preds THEN [req EXCEPT ![d + 1] = preds]
             ELSE req)

RECURSIVE spillSlotsLoop(_, _)
\* doPrepareFunction, "compute the required number of spill bits"
spillSlotsLoop(req, numAllocatablePRegs) ==
  IF req = <<>> THEN 0
  ELSE LET cnt == Head(req) - numAllocatablePRegs
       IN  (IF cnt > 0 THEN cnt + 1 ELSE 0)
             + spillSlotsLoop(Tail(req), numAllocatablePRegs)

\* doPrepareFunction, "create them as multiples of RRegs size": the number of
\* iterations of "for (j = 0; j <= (numSpillSlotsReq+31)/(8*getSpillSize(RC))"
excessSpillObjects(req) == (req + 31) \div RRegsSpillBits + 1

RECURSIVE unifyWithEach(_, _, _)
\* computeRegAlloc: unifyWithChild for every child in cs
unifyWithEach(impl, cs, infos) ==
  IF cs = {} THEN impl
  ELSE unifyWithEach(unifyWithChild(impl, infos[Min(cs)]), cs \ {Min(cs)}, infos)

RECURSIVE postOrderLoop(_, _, _, _)
\* computeRegAlloc, the post-order loop
postOrderLoop(f, par, order, infos) ==
  IF order = <<>> THEN infos
  ELSE LET scope == Head(order)
           RI    == unifyWithEach(NewImpl(ScopeNumLocs(f, scope)),
                                  Children(par, scope), infos)
       IN  postOrderLoop(f, par, Tail(order), Put(infos, scope, RI))

InitPrepare ==
  /\ prepFunc = EmptyMap
  /\ requiredPreds = <<>>
  /\ numSpillSlotsReq = 0
  /\ ExcessSpillFIs = 0
  /\ prepPc = "choose"
  /\ MaxRegs \in 1 .. MaxPrepRegs
  /\ RAIdle
  /\ TreeIdle
  /\ LocIdle
  /\ LinIdle
  /\ ElimIdle
  /\ DefsIdle
  /\ ApplyIdle
  /\ ExecIdle
  /\ CallIdle

\* the function the passes run on
ChooseFunction ==
  /\ prepPc = "choose"
  /\ \E f \in PrepFuncs :
        /\ prepFunc' = f
        /\ scopeParent' = PrepParent(f)
  /\ prepPc' = "prepare"
  /\ UNCHANGED <<requiredPreds, numSpillSlotsReq, ExcessSpillFIs>>
  /\ UNCHANGED <<RAInfos, spillLocCnt, treeIdx, treePc>>
  /\ UNCHANGED otherThanPrepare

\* PatmosSPPrepare::doPrepareFunction
DoPrepareFunction ==
  /\ prepPc = "prepare"
  /\ LET req   == requiredPredsLoop(prepFunc, scopeParent,
                                     DepthFirstOf(scopeParent, 0), <<>>)
         slots == spillSlotsLoop(req, getNumUnusedPRegs)
     IN  /\ requiredPreds' = req
         /\ numSpillSlotsReq' = slots
         /\ ExcessSpillFIs' = excessSpillObjects(slots)
  /\ prepPc' = "alloc"
  /\ UNCHANGED prepFunc
  /\ UNCHANGED treeVars
  /\ UNCHANGED otherThanPrepare

\* RAInfo::computeRegAlloc up to the end of the post-order loop
ConstructRAInfos ==
  /\ prepPc = "alloc"
  /\ RAInfos' = postOrderLoop(prepFunc, scopeParent,
                              PostOrderOf(scopeParent, 0), EmptyMap)
  /\ spillLocCnt' = 0
  /\ treeIdx' = 1
  /\ treePc' = "df"
  /\ prepPc' = "allocated"
  /\ UNCHANGED <<prepFunc, requiredPreds, numSpillSlotsReq, ExcessSpillFIs>>
  /\ UNCHANGED scopeParent
  /\ UNCHANGED otherThanPrepare

NextPrepare ==
  \/ ChooseFunction
  \/ DoPrepareFunction
  \/ ConstructRAInfos
  \/ DepthFirstVisit

SpecPrepare == InitPrepare /\ [][NextPrepare]_vars

(***************************************************************************)
(* Specification SpecLoop: the loop counters.  The LinearizeWalker emits   *)
(* the preheader and the back-edge block of every loop, mergeMBBs and the  *)
(* RedundantLdStEliminator run, and the reduced code executes.             *)
(***************************************************************************)
\* the functions: a scope tree, the bound of every loop, and whether the
\* blocks of a scope load a predicate from the excess spill slots
LoopFuncs ==
  UNION {[parent : ScopeTrees(n),
          bound : [1 .. (n - 1) -> 1 .. MaxLoopBound],
          body : [0 .. (n - 1) -> {"plain", "load"}]] :
         n \in 1 .. MaxLoopScopes}

\* an instruction of the reduced code: op, fi and dummy as the eliminator
\* sees it, sem and arg as the processor executes it
CodeInstr(op, fi, dummy, sem, arg, scope) ==
  [op |-> op, fi |-> fi, dummy |-> dummy, sem |-> sem, arg |-> arg,
   scope |-> scope, id |-> <<0, 0>>]

\* exitSubscope with CMPLE for CMPLT: the branch is taken at zero as well
BranchMBBAtZero(f, S) ==
  LET fi == LoopCntFI(getDepth(f.parent, S) - 1)
  IN  <<CodeInstr("load", fi, FALSE, "LWC", 0, S),
        CodeInstr("write", NoFI, FALSE, "SUBi", 1, S),
        CodeInstr("write", NoFI, FALSE, "CMPLE", 0, S),
        CodeInstr("store", fi, FALSE, "SWC", 0, S),
        CodeInstr("other", NoFI, FALSE, "BR", 0, S)>>

\* enterSubscope, "Initialize the loop bound and store it to the stack
\* slot": LIi/LIl GuardsReg = bound; the dummy LWC; SWC [fi] = GuardsReg
PrehdrMBB(f, S) ==
  LET fi == LoopCntFI(getDepth(f.parent, S) - 1)
  IN  <<CodeInstr("write", NoFI, FALSE, "LI", f.bound[S], S),
        CodeInstr("load", fi, TRUE, "LWC", 0, S),
        CodeInstr("store", fi, FALSE, "SWC", 0, S)>>

\* exitSubscope, the block of the back edge: LWC GuardsReg = [fi];
\* SUBi GuardsReg = GuardsReg - 1; CMPLT PRTmp = R0 < GuardsReg;
\* SWC [fi] = GuardsReg; BR (PRTmp) to the header of S
BranchMBB(f, S) ==
  LET fi == LoopCntFI(getDepth(f.parent, S) - 1)
  IN  <<CodeInstr("load", fi, FALSE, "LWC", 0, S),
        CodeInstr("write", NoFI, FALSE, "SUBi", 1, S),
        CodeInstr("write", NoFI, FALSE, "CMPLT", 0, S),
        CodeInstr("store", fi, FALSE, "SWC", 0, S),
        CodeInstr("other", NoFI, FALSE, "BR", 0, S)>>

\* the predicated code of a block of scope s: it may write PRTmp, and with
\* insertPredicateLoad it loads GuardsReg from the excess spill slots
BodyInstrs(f, s) ==
  <<CodeInstr("other", NoFI, FALSE, "BODY", 0, s)>>
  \o (IF f.body[s] = "load"
        THEN <<CodeInstr("load", ExcessSpillFI, FALSE, "LWC", 0, s)>>
        ELSE <<>>)

RECURSIVE LoopWalk(_, _)
RECURSIVE LoopWalkAll(_, _)
\* the blocks the LinearizeWalker leaves for scope s, in layout order
LoopWalk(f, s) ==
  (IF s = 0 THEN <<>> ELSE <<MBBOf(PrehdrMBB(f, s), -1, {})>>)
  \o <<MBBOf(BodyInstrs(f, s), s, {})>>
  \o LoopWalkAll(f, Ascending(Children(f.parent, s)))
  \o (IF s # 0 THEN <<MBBOf(BranchMBB(f, s), -1, {s})>>
      ELSE IF Children(f.parent, s) # {} THEN <<MBBOf(BodyInstrs(f, s), -1, {})>>
      ELSE <<>>)

LoopWalkAll(f, ss) ==
  IF ss = <<>> THEN <<>>
  ELSE LoopWalk(f, Head(ss)) \o LoopWalkAll(f, Tail(ss))

\* every instruction gets its identity, the MachineInstr pointer
NumberCode(chain) ==
  [i \in DOMAIN chain |->
     [chain[i] EXCEPT !.instrs =
        [k \in DOMAIN chain[i].instrs |->
           [chain[i].instrs[k] EXCEPT !.id = <<i, k>>]]]]

\* the 32-bit words, read as signed numbers
Int32Max == (2 ^ 30 - 1) + 2 ^ 30
Int32Min == (-Int32Max) - 1

\* SUBi on 32-bit words
sub32(x, imm) ==
  IF x < Int32Min + imm THEN Int32Max - ((Int32Min + imm - 1) - x) ELSE x - imm

\* what a frame object holds before the function stores to it
GarbageWords == {0, 2, -1, Int32Min}

\* the block that heads loop S
HeaderOf(MF, S) == CHOOSE b \in DOMAIN MF : MF[b].heads = S

InitLoop ==
  /\ elimFunc = EmptyMap
  /\ elimMF = <<>>
  /\ Removables = {}
  /\ BlockInfos = <<>>
  /\ elimCount = 0
  /\ elimPc = "start"
  /\ MaxRegs = 1
  /\ ExecIdle
  /\ CallIdle
  /\ RAIdle
  /\ TreeIdle
  /\ LocIdle
  /\ LinIdle
  /\ DefsIdle
  /\ ApplyIdle
  /\ PrepIdle

\* RootScope->walk(LW) on a function with loops
LinearizeLoops ==
  /\ elimPc = "start"
  /\ execPc = "idle"
  /\ \E f \in LoopFuncs :
        /\ elimFunc' = f
        /\ elimMF' = NumberCode(LoopWalk(f, 0))
        /\ Removables' =
             {MI.id : MI \in {x \in AllInstrs(NumberCode(LoopWalk(f, 0))) : x.dummy}}
  /\ elimPc' = "linearized"
  /\ execPc' = "emitted"
  /\ UNCHANGED <<BlockInfos, elimCount>>
  /\ UNCHANGED <<execBlock, execIdx, execGuardsReg, execPRTmp, execSlots,
                 hdrCount, loopExits>>
  /\ UNCHANGED otherThanExec

\* the function is entered: the frame objects hold what was there before
EnterFunction ==
  /\ elimPc = "removed"
  /\ execPc = "emitted"
  /\ \E g \in GarbageWords :
        /\ execSlots' = [fi \in ElimFIs |-> g]
        /\ execGuardsReg' = g
  /\ execPRTmp' \in BOOLEAN
  /\ execBlock' = 1
  /\ execIdx' = 1
  /\ hdrCount' = [x \in DOMAIN elimFunc.parent |-> 0]
  /\ loopExits' = {}
  /\ execPc' = "run"
  /\ UNCHANGED elimVars
  /\ UNCHANGED otherThanExec

\* the processor executes the next instruction of the block; a BR is taken
\* if PRTmp holds, wherever mergeMBBs left it in its block
ExecuteInstr ==
  /\ execPc = "run"
  /\ execIdx <= Len(elimMF[execBlock].instrs)
  /\ LET MI == elimMF[execBlock].instrs[execIdx]
         taken == MI.sem = "BR" /\ execPRTmp
     IN  /\ execGuardsReg' =
              CASE MI.sem = "LI" -> MI.arg
                [] MI.sem = "LWC" -> execSlots[MI.fi]
                [] MI.sem = "SUBi" -> sub32(execGuardsReg, MI.arg)
                [] OTHER -> execGuardsReg
         /\ execSlots' =
              IF MI.sem = "SWC" THEN [execSlots EXCEPT ![MI.fi] = execGuardsReg]
              ELSE execSlots
         /\ IF MI.sem = "CMPLT" THEN execPRTmp' = (0 < execGuardsReg)
            ELSE IF MI.sem = "CMPLE" THEN execPRTmp' = (0 <= execGuardsReg)
            ELSE IF MI.sem = "BODY" THEN execPRTmp' \in BOOLEAN
            ELSE execPRTmp' = execPRTmp
         /\ taken => hdrCount[MI.scope] <= MaxLoopBound + 1
         /\ hdrCount' =
              IF MI.sem = "LI" THEN [hdrCount EXCEPT ![MI.scope] = 0]
              ELSE IF taken THEN [hdrCount EXCEPT ![MI.scope] = @ + 1]
              ELSE hdrCount
         /\ loopExits' =
              IF MI.sem = "BR" /\ ~execPRTmp
              THEN loopExits \cup {<<MI.scope, hdrCount[MI.scope]>>}
              ELSE loopExits
         /\ execBlock' = IF taken THEN HeaderOf(elimMF, MI.scope) ELSE execBlock
         /\ execIdx' = IF taken THEN 1 ELSE execIdx + 1
  /\ UNCHANGED execPc
  /\ UNCHANGED elimVars
  /\ UNCHANGED otherThanExec

\* the end of a block: control falls through to the next block of the
\* layout, the function returns at the end of the last
LeaveBlock ==
  /\ execPc = "run"
  /\ execIdx > Len(elimMF[execBlock].instrs)
  /\ IF execBlock < Len(elimMF)
     THEN /\ execBlock' = execBlock + 1
          /\ hdrCount' =
               IF elimMF[execBlock + 1].heads > 0
               THEN [hdrCount EXCEPT ![elimMF[execBlock + 1].heads] = @ + 1]
               ELSE hdrCount
          /\ execPc' = "run"
     ELSE /\ execPc' = "halt"
          /\ UNCHANGED <<execBlock, hdrCount>>
  /\ execIdx' = 1
  /\ UNCHANGED <<execGuardsReg, execPRTmp, execSlots, loopExits>>
  /\ UNCHANGED elimVars
  /\ UNCHANGED otherThanExec

NextLoop ==
  \/ LinearizeLoops
  \/ MergeMBBs
  \/ FindRedundantLoads
  \/ Remove
  \/ EnterFunction
  \/ ExecuteInstr
  \/ LeaveBlock

\* the processor keeps executing the code it has entered
SpecLoop ==
  InitLoop /\ [][NextLoop]_vars /\ WF_vars(ExecuteInstr) /\ WF_vars(LeaveBlock)

(***************************************************************************)
(* Claims checked under SpecRA                                             *)
(***************************************************************************)
\* the blocks whose uses the scan has handled
UsesHandled ==
  {i \in DOMAIN Scope.blocks :
     \/ i < scanPos
     \/ i = scanPos /\ raPc \in {"defs"}}

\* C1: the location scan of a scope whose blocks have one guard predicate
\* each never gets stuck (an eviction always finds a predicate that holds a
\* register), and every use location recorded for a block is a register
\* index that is below MaxRegs, also after unifyRegister.
C1_ScanNeverStuck ==
  /\ raPc # "stuck"
  /\ \A i \in DOMAIN UseLocs : \A p \in DOMAIN UseLocs[i] :
        /\ UseLocs[i][p].loc < MaxRegs
        /\ getUseLocs(i)[p] < MaxRegs

\* C2: once the scan has handled the uses of position i, every
\* predicate p with LiveRange(p).lastUse(i) holds no location any more (its
\* location has been freed), also a predicate that is defined but never used
\* as a block guard.
C2_RetiredAllPredicates ==
  raPc = "defs" =>
    \A p \in DOMAIN LRs :
       lastUse(LRs[p], scanPos) /\ ~usesP0(p) => p \notin DOMAIN curLocs

\* C10 (as claimed): every live range has NumBlocks+1 positions, use and def
\* bits follow the blocks, and the header predicate of every scope has a use
\* at the sentinel position.
C10_SentinelUseInEveryScope ==
  raPc \notin {"new", "create"} =>
    /\ \A p \in DOMAIN LRs : DOMAIN LRs[p].uses = 0 .. NumBlocks
    /\ getHeaderPred \in DOMAIN LRs
    /\ LRs[getHeaderPred].uses[NumBlocks]

\* C10 (amended): every live range has NumBlocks+1 positions; the use bit at
\* i < NumBlocks is set iff block i has the predicate among its block
\* predicates, the def bit iff block i defines it; at the sentinel position
\* nothing is defined, and exactly the header predicate of a scope that is
\* not top-level is used there.
C10_LiveRanges ==
  raPc \notin {"new", "create"} =>
    \A p \in DOMAIN LRs :
       /\ DOMAIN LRs[p].uses = 0 .. NumBlocks
       /\ DOMAIN LRs[p].defs = 0 .. NumBlocks
       /\ \A i \in 0 .. (NumBlocks - 1) :
             /\ LRs[p].uses[i] <=> p \in Scope.blocks[i].preds
             /\ LRs[p].defs[i] <=> p \in Range(Scope.blocks[i].defs)
       /\ ~LRs[p].defs[NumBlocks]
       /\ LRs[p].uses[NumBlocks] <=>
             (~Scope.isTopLevel /\ p \in Scope.blocks[0].preds)

C10_Witness ==
  /\ raPc = "use"
  /\ ~Scope.isTopLevel
  /\ NumBlocks = MaxBlocks
  /\ LRs[getHeaderPred].uses[NumBlocks]
  /\ \E p \in DOMAIN LRs : p # getHeaderPred /\ LRs[p].defs[0] /\ LRs[p].uses[1]

\* the predicates that block scanPos defines and that have no location
NewlyDefined ==
  {p \in Range(Scope.blocks[scanPos].defs) : p \notin DOMAIN curLocs}

\* getAvailLoc hands out location l before location r: the free locations
\* in ascending order, then new registers, then new stack slots
HandedOutBefore(l, r) ==
  \/ l.type = Register /\ r.type = Stack
  \/ l.type = r.type /\ l.loc < r.loc

C12_NewPredicateInRegister ==
  [][(raPc = "defs" /\ FreeLocs = {} /\ ~hasFreeRegister(ScanState)) =>
       \A p \in NewlyDefined : DefLocs'[p].type = Register]_vars

\* C12: the definitions of a block evict nothing: every predicate that holds
\* a location keeps it, and every definition location of a predicate the
\* block does not newly place stays; when no register is free or can be
\* created and the free set is empty, a newly defined predicate starts in a
\* new stack slot.
C12_NoEvictionAtDefinition ==
  [][raPc = "defs" =>
       /\ \A q \in DOMAIN curLocs :
             q \in DOMAIN curLocs' /\ curLocs'[q] = curLocs[q]
       /\ \A q \in DOMAIN DefLocs \ NewlyDefined :
             q \in DOMAIN DefLocs' /\ DefLocs'[q] = DefLocs[q]
       /\ (FreeLocs = {} /\ ~hasFreeRegister(ScanState)) =>
             \A p \in NewlyDefined :
                /\ DefLocs'[p].type = Stack
                /\ DefLocs'[p].loc >= NumLocs - MaxRegs
                /\ curLocs'[p] = DefLocs'[p]]_vars

\* with one register, held by the header predicate of a loop, the header
\* defined a predicate that started in stack slot 0
C12_Witness ==
  /\ raPc = "use"
  /\ scanPos = 1
  /\ ~Scope.isTopLevel
  /\ MaxRegs = 1
  /\ FreeLocs = {}
  /\ curLocs[getHeaderPred] = Location(Register, 0)
  /\ \E p \in Range(Scope.blocks[0].defs) \ {0} :
       /\ DefLocs[p] = Location(Stack, 0)
       /\ curLocs[p] = DefLocs[p]

\* the predicates that hold a register before the uses of block scanPos
RegisterHolders ==
  {q \in DOMAIN LRs : q \in DOMAIN curLocs /\ curLocs[q].type = Register}

\* the register indices that are free or can be created
FreeRegisters ==
  {l.loc : l \in {f \in FreeLocs : f.type = Register}}
     \cup (IF FreeLocs = {} /\ NumLocs < MaxRegs THEN {NumLocs} ELSE {})

\* C13: when the guard predicate p of a block other than the header is in
\* stack slot s, the block's use location for p has load = s and loc = a free
\* register if there is one; otherwise loc = the register of a register
\* holder whose next use is furthest, and that victim moves to a new stack
\* slot t: spill = t if the victim has a use at or before the block, else no
\* spill and the victim's definition location becomes t.
C13_ReloadAtUse ==
  [][(raPc = "use" /\ scanPos > 0) =>
       \A p \in Scope.blocks[scanPos].preds :
          (p \in DOMAIN curLocs /\ curLocs[p].type = Stack /\ raPc' # "stuck") =>
             LET UL == UseLocs'[scanPos][p]
             IN  /\ UL.load = <<TRUE, curLocs[p].loc>>
                 /\ IF hasFreeRegister(ScanState)
                    THEN UL.loc \in FreeRegisters /\ ~UL.spill[1]
                    ELSE \E victim \in FurthestNextUse(scanPos, RegisterHolders) :
                            \E t \in 0 .. NumLocs :
                               /\ UL.loc = curLocs[victim].loc
                               /\ Location(Stack, t) \notin Range(curLocs)
                               /\ curLocs'[victim] = Location(Stack, t)
                               /\ IF anyUseBefore(LRs[victim], scanPos)
                                  THEN /\ UL.spill = <<TRUE, t>>
                                       /\ DefLocs'[victim] = DefLocs[victim]
                                  ELSE /\ ~UL.spill[1]
                                       /\ DefLocs'[victim] = Location(Stack, t)]_vars

\* C14: in the order insertPredDefinitions emits the definitions of a
\* block, no definition that writes register r stands in front of another
\* definition that is no swap and reads r as its guard, and no two simple
\* definitions write each other's guard.
C14_NoGuardClobbered ==
  defPc \in {"sort", "emitted"} =>
    \A i, j \in DOMAIN defs_sorted :
       (i # j /\ is_simple(defs_sorted[j].def)) =>
          /\ i < j => ~overwrites_guard_of(defs_sorted[i].def, defs_sorted[j].def)
          /\ ~mergeable(defs_sorted[i].def, defs_sorted[j].def)

\* the swap entries of defs_sorted
SwapEntries == {i \in DOMAIN defs_sorted : is_swap(defs_sorted[i].def)}

\* the definitions of the block go to the S0 spill slot of the subscope
S0Mode == defMode.isSubheader /\ defMode.needsScopeSpill

PosOf(id) == CHOOSE k \in DOMAIN appCode : appCode[k].id = id

\* the instruction at position k runs exactly if the guard register holds
\* and the predicate the instruction had in the block holds
GuardedBy(k, I) ==
  \A m \in RegValues :
     LET at == RegsAt(m, appCode, k)
     IN  Executes(at, appCode, k)
           = (at[I.predReg] /\ OperandValue(at, I.po))

\* how applyPredicates rewrites a predicable instruction I under a guard
\* register other than P0; k is its position afterwards
Predicated(k, I) ==
  /\ GuardedBy(k, I)
  /\ ~isPredicated(I) => appCode[k] = [I EXCEPT !.po = <<I.predReg, FALSE>>]
  /\ (isPredicated(I) /\ I.po # <<I.predReg, FALSE>>) =>
        /\ appCode[k] = [I EXCEPT !.po = <<PRTmp, FALSE>>]
        /\ k > 1
        /\ appCode[k - 1].op = "PAND"
        /\ appCode[k - 1].po = AlwaysTrue
        /\ appCode[k - 1].dst = PRTmp
        /\ appCode[k - 1].a = <<I.predReg, FALSE>>
        /\ appCode[k - 1].b = I.po
  /\ I.po = <<I.predReg, FALSE>> => appCode[k] = I

\* C16 as stated: every predicable instruction that is no call, in a block
\* whose guard register is not P0, runs after applyPredicates exactly if the
\* guard holds and its own predicate held; instructions under P0 are left
\* unchanged.
C16_EveryPredicableGuarded ==
  appPc = "done" =>
    \A id \in DOMAIN appBlock.instrs :
       LET I == appBlock.instrs[id]
       IN  /\ (I.predicable /\ I.kind # "call" /\ I.predReg # P0)
                => Predicated(PosOf(id), I)
           /\ (I.kind # "call" /\ I.predReg = P0) => appCode[PosOf(id)] = I

\* C16: every predicable instruction that is no call, return, stack control,
\* frame setup or return information instruction, in a block whose guard
\* register g is not P0, runs after applyPredicates exactly if g holds and
\* its own predicate (q, flag) held: without a predicate it gets (g, 0),
\* with a predicate other than (g, 0) it gets a PAND PRTmp = g, (q, flag)
\* right in front of it and the predicate (PRTmp, 0). Returns, stack
\* control, frame setup and return information instructions, instructions
\* that are not predicable and instructions under P0 are left unchanged.
C16_PlainPredicableGuarded ==
  appPc = "done" =>
    \A id \in DOMAIN appBlock.instrs :
       LET I == appBlock.instrs[id]
       IN  /\ (I.predicable /\ I.kind = "plain" /\ I.predReg # P0)
                => Predicated(PosOf(id), I)
           /\ (I.kind \in SkippedKinds
                 \/ (I.kind = "plain" /\ (~I.predicable \/ I.predReg = P0)))
                => appCode[PosOf(id)] = I

\* an instruction predicated by the negation of a user register was
\* rewritten under the guard register, and a frame setup instruction of the
\* same block was passed over
C16_Witness ==
  /\ appPc = "done"
  /\ \E id \in DOMAIN appBlock.instrs :
        LET I == appBlock.instrs[id]
        IN  /\ I.kind = "plain" /\ I.predicable /\ I.predReg = GuardReg
            /\ I.po = <<UserReg, TRUE>>
            /\ appCode[PosOf(id)].po = <<PRTmp, FALSE>>
  /\ \E id \in DOMAIN appBlock.instrs :
        appBlock.instrs[id].kind = "frameSetup"

\* C17: applyPredicates leaves every call without a predicate; right in
\* front of the call are PMOV PRTmp = guard register of the call and the
\* store of R9, right behind it is the reload of R9, and the reload has no
\* predicate.
C17_CallsNeverPredicated ==
  appPc = "done" =>
    \A id \in DOMAIN appBlock.instrs :
       LET I == appBlock.instrs[id]
           k == PosOf(id)
       IN  I.kind = "call" =>
             /\ appCode[k] = I
             /\ ~isPredicated(appCode[k])
             /\ k > 2 /\ k < Len(appCode)
             /\ appCode[k - 2].op = "PMOV"
             /\ appCode[k - 2].dst = PRTmp
             /\ appCode[k - 2].a = <<I.predReg, FALSE>>
             /\ appCode[k - 2].po = AlwaysTrue
             /\ appCode[k - 1].op = "SWC"
             /\ appCode[k - 1].po = AlwaysTrue
             /\ appCode[k + 1].op = "LWC"
             /\ appCode[k + 1].po = AlwaysTrue

\* a call under the guard register, followed by another instruction, went
\* through applyPredicates
C17_Witness ==
  /\ appPc = "done"
  /\ \E id \in DOMAIN appBlock.instrs :
        /\ appBlock.instrs[id].kind = "call"
        /\ appBlock.instrs[id].predReg = GuardReg
        /\ id < Len(appBlock.instrs)
        /\ appCode[PosOf(id) + 1].op = "LWC"

(***************************************************************************)
(* Claims checked under SpecLin: the protocol of the walk                  *)
(***************************************************************************)
\* the calls of the walker for scope S: ev is "enter" or "exit"
TraceCalls(ev, S) ==
  {i \in DOMAIN linTrace :
     linTrace[i].call.ev = ev /\ linTrace[i].call.scope = S}

\* the blocks the walker created in its ev call for S
CreatedBy(ev, S) == UNION {linTrace[i].created : i \in TraceCalls(ev, S)}

\* where the scope is in the walk; exitSubscope is one step, so "Exiting"
\* lies inside the step from "Entered" to "Exited"
ScopeStage(S) ==
  IF TraceCalls("exit", S) # {} THEN "Exited"
  ELSE IF TraceCalls("enter", S) # {} THEN "Entered"
  ELSE "NotEntered"

\* the position of block b in the layout
LayoutPos(b) == CHOOSE i \in DOMAIN linLayout : linLayout[i] = b

\* the blocks scope S holds before linearization
OwnBlocks(S) == {BlockOf(linFunc, S, k) : k \in 1 .. linFunc.nb[S]}

RECURSIVE NestedScopes(_)
\* the scopes nested in S, at any depth
NestedScopes(S) ==
  Children(linFunc.parent, S)
    \cup UNION {NestedScopes(c) : c \in Children(linFunc.parent, S)}

\* the blocks between the preheader and the back-edge block of loop S
LoopBody(S) ==
  OwnBlocks(S)
    \cup UNION {OwnBlocks(D) \cup CreatedBy("enter", D) \cup CreatedBy("exit", D) :
                  D \in NestedScopes(S)}

\* the layout of loop S after the walk
LoopLayout(S) ==
  LET pre == CreatedBy("enter", S)
      out == CreatedBy("exit", S)
      branch == linBackEdges[S]
      P == linFunc.parent[S]
  IN  /\ Cardinality(pre) = 1
      /\ \A b \in pre :
            /\ LayoutPos(b) + 1 = LayoutPos(HeaderMBB(linFunc, S))
            /\ {linLayout[i] : i \in (LayoutPos(b) + 1) .. (LayoutPos(branch) - 1)}
                 = LoopBody(S)
      /\ branch \in out
      /\ HeaderMBB(linFunc, S) \in linSucc[branch]
      /\ Cardinality(out \ {branch})
           = IF linFunc.needsScopeSpill[S] THEN 1 ELSE 0
      /\ \A post \in out \ {branch} : LayoutPos(post) = LayoutPos(branch) + 1
      /\ \A i \in TraceCalls("enter", S), j \in TraceCalls("exit", S) :
            /\ i < j
            /\ \A pi \in TraceCalls("enter", P) : pi < i
            /\ \A pj \in TraceCalls("exit", P) : j < pj

\* every scope was entered once and exited once; a loop has its preheader,
\* its body, its back-edge block and, with a scope spill, its postheader in
\* this order; the top-level scope has none of these blocks
WalkDone ==
  linPc = "done" =>
    \A S \in LinScopes(linFunc) :
       /\ Cardinality(TraceCalls("enter", S)) = 1
       /\ Cardinality(TraceCalls("exit", S)) = 1
       /\ IF isTopLevel(S)
          THEN CreatedBy("enter", S) = {} /\ CreatedBy("exit", S) = {}
          ELSE LoopLayout(S)

\* a step of the walk moves at most one scope, from NotEntered to Entered
\* or from Entered to Exited
WalkStep ==
  \A S \in LinScopes(linFunc) :
     \/ ScopeStage(S)' = ScopeStage(S)
     \/ ScopeStage(S) = "NotEntered" /\ ScopeStage(S)' = "Entered"
     \/ ScopeStage(S) = "Entered" /\ ScopeStage(S)' = "Exited"

\* C18: the walk gives every loop scope S exactly one preheader block right
\* in front of its header, then the blocks of S and of its nested scopes,
\* then exactly one back-edge block, then a postheader block exactly if S
\* needs a scope spill; every scope goes from NotEntered to Entered to
\* Exited once, a nested scope between the entry and the exit of its parent,
\* and the top-level scope gets neither a preheader nor a back-edge block.
C18_ScopeWalkProtocol == [](WalkDone) /\ [][WalkStep]_vars

\* a loop with a scope spill that holds a nested loop without one has been
\* walked
C18_Witness ==
  /\ linPc = "done"
  /\ \E S, D \in LinScopes(linFunc) :
        /\ ~isTopLevel(S)
        /\ linFunc.parent[D] = S
        /\ linFunc.needsScopeSpill[S]
        /\ ~linFunc.needsScopeSpill[D]
        /\ Cardinality(CreatedBy("exit", S)) = 2
        /\ Cardinality(CreatedBy("exit", D)) = 1

(***************************************************************************)
(* Claims checked under SpecElim: what process() erases                    *)
(***************************************************************************)
\* the identities of the instructions of MF
InstrIds(MF) == {MI.id : MI \in AllInstrs(MF)}

\* the loads findRedundantLoads finds redundant in the merged function
RedundantLoads ==
  findRedundantLoads(elimMF, NewBlockInfos(elimMF)).redundant

\* the dummy loads enterSubscope handed to addRemovableInst
DummyLoads == {MI.id : MI \in {x \in AllInstrs(elimMF) : x.dummy}}

\* what the step of process() that erases does
ProcessErases ==
  (elimPc = "found" /\ elimPc' = "removed") =>
     LET erased == InstrIds(elimMF) \ InstrIds(elimMF')
     IN  /\ \A MI \in AllInstrs(elimMF) :
               MI.op = "store" => MI.id \in InstrIds(elimMF')
         /\ \A MI \in AllInstrs(elimMF) : MI.id \in erased => MI.op = "load"
         /\ erased = RedundantLoads \cup DummyLoads
         /\ elimCount' = Cardinality(erased)
         /\ \A b \in DOMAIN elimMF :
               elimMF'[b].instrs
                 = SelectSeq(elimMF[b].instrs, LAMBDA MI : MI.id \notin erased)

\* C19: process() erases no store; the instructions it erases are exactly
\* the loads found redundant by findRedundantLoads and the dummy loads
\* handed to addRemovableInst, and it returns their number.
C19_NoStoreErased == [][ProcessErases]_vars

\* process() has erased two or more instructions of a function and returned;
\* the function holds a store that does not follow a load
C19_Witness ==
  /\ elimPc = "removed"
  /\ elimCount >= 2
  /\ \E MI \in AllInstrs(elimMF) : MI.op = "store"
  /\ \E b \in DOMAIN elimMF : \E k \in DOMAIN elimMF[b].instrs :
        /\ elimMF[b].instrs[k].op = "store"
        /\ k > 1 => elimMF[b].instrs[k - 1].op # "load"

(***************************************************************************)
(* Claims about the stack slots of the scopes                              *)
(***************************************************************************)
\* the stack slots getDefLoc hands out for the scanned scope
StackDefLocs ==
  {unifyStack(ThisImpl, DefLocs[p].loc) :
     p \in {q \in DOMAIN DefLocs : DefLocs[q].type = Stack}}

\* C20, for one scope: after the unification the stack definition locations
\* of the scope lie in
\* [FirstUsableStackSlot, FirstUsableStackSlot + NumLocs - MaxRegs).
C20_StackDefLocsInRange ==
  raPc = "done" =>
    \A slot \in StackDefLocs :
       /\ NumLocs > MaxRegs
       /\ FirstUsableStackSlot <= slot
       /\ slot < FirstUsableStackSlot + (NumLocs - MaxRegs)

\* the scopes computeRegAlloc visits before s in depth-first order
VisitedBefore(s) ==
  LET order == DepthFirstOf(scopeParent, 0)
  IN  {order[i] : i \in {j \in DOMAIN order :
                           \E k \in DOMAIN order : order[k] = s /\ j < k}}

RECURSIVE SumSpillLocs(_)
\* the number of spill locations of the scopes in S
SumSpillLocs(S) ==
  IF S = {} THEN 0
  ELSE neededSpillLocs(RAInfos[Min(S)]) + SumSpillLocs(S \ {Min(S)})

\* the stack slots of scope s
StackRange(s) ==
  {unifyStack(RAInfos[s], idx) :
     idx \in 0 .. (RAInfos[s].NumLocs - RAInfos[s].MaxRegs - 1)}

\* C20, over the scope tree: after computeRegAlloc a scope with
\* NumLocs > MaxRegs has FirstUsableStackSlot equal to the number of spill
\* locations of the scopes visited before it in depth-first order, and the
\* slot ranges of two scopes are disjoint.
C20_StackRangesDisjoint ==
  treePc = "done" =>
    /\ \A s \in DOMAIN scopeParent :
          RAInfos[s].NumLocs > RAInfos[s].MaxRegs =>
             RAInfos[s].FirstUsableStackSlot = SumSpillLocs(VisitedBefore(s))
    /\ \A s, t \in DOMAIN scopeParent :
          s # t => StackRange(s) \cap StackRange(t) = {}

(***************************************************************************)
(* Claims checked under SpecTree: one loop under four registers            *)
(***************************************************************************)
\* computeRegAlloc has run with four registers on a top-level scope with
\* one loop that is not nested, and the loop scope holds four locations:
\* its header predicate and three conditions
OneLoopFourRegisters ==
  /\ treePc = "done"
  /\ DOMAIN scopeParent = {0, 1}
  /\ MaxRegs = 4
  /\ RAInfos[1].NumLocs = 4

\* C21 as stated: in this scenario the loop scope needs no scope spill and
\* no scope needs a stack slot.
C21_NoSpillWithFourRegisters ==
  OneLoopFourRegisters =>
    /\ ~RAInfos[1].NeedsScopeSpill
    /\ \A s \in DOMAIN scopeParent : neededSpillLocs(RAInfos[s]) = 0

\* C21: in this scenario the loop scope needs no stack slot, and it needs no
\* scope spill exactly if the top-level scope holds no location of its own
\* (the header predicate of the single-path root is P0); a top-level scope
\* with at most four locations needs no stack slot either.
C21_NoSpillUnderRoot ==
  OneLoopFourRegisters =>
    /\ RAInfos[1].NeedsScopeSpill <=> RAInfos[0].NumLocs > 0
    /\ neededSpillLocs(RAInfos[1]) = 0
    /\ RAInfos[0].NumLocs <= 4 => neededSpillLocs(RAInfos[0]) = 0

\* the scenario under a top-level scope without locations
C21_Witness ==
  /\ OneLoopFourRegisters
  /\ RAInfos[0].NumLocs = 0
  /\ ~RAInfos[1].NeedsScopeSpill
  /\ RAInfos[1].FirstUsableStackSlot = 0


\* the predicates that hold location l during the scan
HoldersOf(l) == {p \in DOMAIN curLocs : curLocs[p] = l}

\* C22: at every step of the location scan no two predicates that hold a
\* location hold the same location, and no location of the free set is held
\* by a predicate.
C22_LocationExclusivity ==
  raPc \in {"use", "defs", "header", "unify"} =>
    /\ \A l \in Range(curLocs) : Cardinality(HoldersOf(l)) = 1
    /\ FreeLocs \cap Range(curLocs) = {}


\* the scan of a loop scope has handled the uses of its header
LoopScanned ==
  /\ ~Scope.isTopLevel
  /\ \/ raPc \in {"defs", "header", "unify"}
     \/ raPc = "use" /\ scanPos > 0

\* C23: in a loop scope the header predicate is never retired during the
\* scan, and if after the last block it is not in the register its header
\* use names, it is in a stack slot and the header's UseLoc records a load
\* from that slot.
C23_HeaderPredicateRestored ==
  LoopScanned =>
    /\ getHeaderPred \in DOMAIN curLocs
    /\ raPc = "unify" =>
         LET UL  == UseLocs[0][getHeaderPred]
             cur == curLocs[getHeaderPred]
         IN  cur # Location(Register, UL.loc) =>
               /\ cur.type = Stack
               /\ UL.load = <<TRUE, cur.loc>>


\* Impl::getAnyLoc of block i: f names the pair of a UseLoc the lambda
\* picks, load or spill
getAnyLoc(i, f) ==
  IF i \in DOMAIN UseLocs
  THEN LET has == {p \in DOMAIN UseLocs[i] : UseLocs[i][p][f][1]}
       IN  [p \in has |-> unifyRegister(ThisImpl, UseLocs[i][p][f][2])]
  ELSE EmptyMap

\* RAInfo::getLoadLocs of block i
getLoadLocs(i) == getAnyLoc(i, "load")

\* RAInfo::getSpillLocs of block i
getSpillLocs(i) == getAnyLoc(i, "spill")

\* RAInfo::getDefLoc
getDefLoc(pred) ==
  LET loc == DefLocs[pred]
  IN  IF loc.type = Register
      THEN <<loc.type, unifyRegister(ThisImpl, loc.loc)>>
      ELSE <<loc.type, unifyStack(ThisImpl, loc.loc)>>

\* the predicate p is reloaded at block i from the slot its definition
\* writes
LoadsDefinition(i, p) ==
  /\ i \in DOMAIN UseLocs
  /\ p \in DOMAIN UseLocs[i]
  /\ p \in DOMAIN DefLocs
  /\ UseLocs[i][p].load[1]
  /\ DefLocs[p] = Location(Stack, UseLocs[i][p].load[2])

\* the spill at block j (for the use of q) writes the slot that the load of
\* p at block i reads
LoadsSpill(i, p, j, q) ==
  /\ i \in DOMAIN UseLocs /\ p \in DOMAIN UseLocs[i]
  /\ j \in DOMAIN UseLocs /\ q \in DOMAIN UseLocs[j]
  /\ UseLocs[i][p].load[1]
  /\ UseLocs[j][q].spill[1]
  /\ UseLocs[j][q].spill[2] = UseLocs[i][p].load[2]

\* C24: after unification the slot number getLoadLocs reports for a reload
\* equals the slot number under which the value was written: getDefLoc for
\* a predicate defined in that slot, getSpillLocs for a spill to that slot.
C24_ConsistentSlotNumbering ==
  raPc = "done" =>
    \A i \in DOMAIN Scope.blocks : \A p \in Preds :
       /\ LoadsDefinition(i, p) => getLoadLocs(i)[p] = getDefLoc(p)[2]
       /\ \A j \in DOMAIN Scope.blocks : \A q \in Preds :
             LoadsSpill(i, p, j, q) => getLoadLocs(i)[p] = getSpillLocs(j)[q]

\* the part of C24 on spills: load and spill slots are numbered alike
C24_SpillAndLoadAgree ==
  raPc = "done" =>
    \A i, j \in DOMAIN Scope.blocks : \A p, q \in Preds :
       LoadsSpill(i, p, j, q) => getLoadLocs(i)[p] = getSpillLocs(j)[q]


\* the first stack location of a scope that has stack locations is the
\* definition location of a predicate: getDefLoc returns it through
\* unifyStack
FirstStackDefLoc(s) == unifyStack(RAInfos[s], 0)

\* C25: every stack location index the allocator produces is smaller than
\* 32 times the number of excess-spill frame objects doPrepareFunction
\* reserved.
C25_SpillCapacityReserved ==
  treePc = "done" =>
    \A s \in DOMAIN RAInfos :
       RAInfos[s].NumLocs > RAInfos[s].MaxRegs =>
          FirstStackDefLoc(s) < RRegsSpillBits * ExcessSpillFIs


\* the loops of the function that executes
ExecLoops == DOMAIN elimFunc.parent \ {0}

\* no header has executed more often than the bound of its loop since the
\* loop was entered, and at every fall through of a back-edge branch it
\* had executed exactly that often
BoundTimes ==
  execPc \in {"run", "halt"} =>
    /\ \A S \in ExecLoops : hdrCount[S] <= elimFunc.bound[S]
    /\ \A e \in loopExits : e[2] = elimFunc.bound[e[1]]

\* C26: every entry of a loop with bound b executes the loop header
\* exactly b times and then falls through, whatever the predicates hold, and
\* the function, once entered, runs to its end.
C26_LoopRunsBoundTimes ==
  [](BoundTimes) /\ ((execPc = "run") ~> (execPc = "halt"))

C26_Witness ==
  /\ execPc = "halt"
  /\ \E S \in ExecLoops :
        /\ getDepth(elimFunc.parent, S) = 2
        /\ elimFunc.bound[S] = MaxLoopBound
        /\ elimFunc.bound[elimFunc.parent[S]] > 1
        /\ <<S, MaxLoopBound>> \in loopExits
        /\ <<elimFunc.parent[S], elimFunc.bound[elimFunc.parent[S]]>> \in loopExits


RECURSIVE sweepsOf(_, _, _)
\* the number of sweeps of the do-while loop of findRedundantLoads over MF,
\* counted up to MaxSweeps
sweepsOf(MF, st, n) ==
  IF n >= MaxSweeps THEN n
  ELSE LET r == rpoPass(MF, 1, [st EXCEPT !.changed = FALSE])
       IN  IF r.changed THEN sweepsOf(MF, r, n + 1) ELSE n + 1

\* the sweeps findRedundantLoads needed for the merged function
Sweeps ==
  sweepsOf(elimMF, [BI |-> NewBlockInfos(elimMF), collected_loads |-> EmptyMap,
                    changed |-> FALSE], 0)

\* the positions of the unconditional loads of block b
UncondLoads(b) ==
  {k \in DOMAIN elimMF[b].instrs : isUncondLoad(elimMF[b].instrs[k])}

\* the bits set at the exit of every predecessor of b
PredExits(b) ==
  {fi \in ElimFIs : \A p \in Predecessors(elimMF, b) : fi \in BlockInfos[p].LiveFIExit}

\* C27: findRedundantLoads stops after finitely many sweeps, and then the
\* entry set of every block is the intersection of the exit sets of its
\* predecessors (empty without predecessors) and its exit set is the slot of
\* its last unconditional load, or its entry set if it has none.
C27_LoadSetsFixedPoint ==
  elimPc = "found" =>
    /\ Sweeps < MaxSweeps
    /\ \A b \in DOMAIN elimMF :
          /\ BlockInfos[b].LiveFIEntry =
               (IF Predecessors(elimMF, b) = {} THEN {} ELSE PredExits(b))
          /\ BlockInfos[b].LiveFIExit =
               (IF UncondLoads(b) = {} THEN BlockInfos[b].LiveFIEntry
                ELSE {elimMF[b].instrs[Max(UncondLoads(b))].fi})

C27_Witness ==
  /\ elimPc = "found"
  /\ Sweeps >= 3
  /\ \E b \in DOMAIN elimMF :
        /\ Cardinality(Predecessors(elimMF, b)) = 2
        /\ BlockInfos[b].LiveFIEntry # {}


RECURSIVE SpliceOf(_, _, _)
\* the instructions of the blocks a .. b of L, in layout order
SpliceOf(L, a, b) ==
  IF a > b THEN <<>> ELSE L[a].instrs \o SpliceOf(L, a + 1, b)

\* the blocks of the linearized function L that are not appended: the entry,
\* the blocks without exactly one predecessor, the block behind a back edge
BaseBlocks(L) ==
  {i \in DOMAIN L : \/ i = 1
                    \/ Cardinality(Predecessors(L, i)) # 1
                    \/ L[i - 1].backTo # {}}

\* M is L with every other block appended to the base block before it
MergedFrom(L, M) ==
  LET B == Ascending(BaseBlocks(L))
      last(j) == (IF j < Len(B) THEN B[j + 1] ELSE Len(L) + 1) - 1
  IN  /\ Len(M) = Len(B)
      /\ \A j \in DOMAIN M :
            /\ M[j].instrs = SpliceOf(L, B[j], last(j))
            /\ M[j].heads = L[B[j]].heads
            /\ M[j].backTo = L[last(j)].backTo
      /\ SpliceOf(M, 1, Len(M)) = SpliceOf(L, 1, Len(L))
      /\ \A i \in DOMAIN L :
            /\ L[i].heads # -1 =>
                 \E j \in DOMAIN M : B[j] = i /\ M[j].heads = L[i].heads
            /\ \A S \in L[i].backTo :
                 \E j, h \in DOMAIN M : /\ last(j) = i
                                        /\ M[j].backTo = {S}
                                        /\ M[h].heads = S
                                        /\ h \in Successors(M, j)

\* C28: mergeMBBs appends every block with exactly one predecessor to the
\* block before it, except the block behind a back-edge branch; the
\* instructions keep their order, every loop header still starts a block and
\* every back-edge branch still ends a block that branches to its header.
C28_MergeKeepsChain == [][MergeMBBs => MergedFrom(elimMF, elimMF')]_vars

C28_Witness ==
  /\ elimPc = "merged"
  /\ Len(elimMF) < Len(ElimWalk(elimFunc, 0))
  /\ \E j \in DOMAIN elimMF :
        /\ elimMF[j].backTo # {}
        /\ j < Len(elimMF)
        /\ elimMF[j + 1].heads = -1
        /\ Cardinality(Predecessors(elimMF, j + 1)) = 1
        /\ Len(elimMF[j + 1].instrs) > 1


(***************************************************************************)
(* Claims about the registers doReduceFunction hands to the allocation     *)
(***************************************************************************)
\* Patmos::PRegsRegClass: P0 .. P7
NumPRegsRegClass == 8

PRegsRegClass == 0 .. (NumPRegsRegClass - 1)

\* doReduceFunction: the sets of predicate registers a function can leave
\* unused for which computeRegAlloc is called with this MaxRegs
UnusedPRegs ==
  {U \in SUBSET (PRegsRegClass \ {P0}) : Cardinality(U) = MaxRegs + 1}

\* doReduceFunction: PRTmp = AvailPredRegs.back()
PRTmpOf(U) == Max(U)

\* doReduceFunction: AvailPredRegs after the pop_back, the unused registers
\* other than P0 in the order of the register class
AvailPredRegs(U) == Ascending(U \ {PRTmpOf(U)})

\* getPredicateRegisters: the registers a build can return for location
\* loc; AvailPredRegs[loc] reads past the end of the vector if the
\* assertion is compiled out and loc is not below its size
getPredicateRegisters(U, loc) ==
  IF loc < Len(AvailPredRegs(U)) THEN {AvailPredRegs(U)[loc + 1]}
  ELSE PRegsRegClass

\* C29: the allocation gets MaxRegs = |AvailPredRegs| without PRTmp, and
\* every register getPredicateRegisters returns for a use location of a
\* block is AvailPredRegs[i] with i < MaxRegs, hence neither PRTmp nor P0.
C29_ReservedRegisters ==
  \A U \in UnusedPRegs :
    /\ Len(AvailPredRegs(U)) = MaxRegs
    /\ \A i \in DOMAIN UseLocs : \A p \in DOMAIN UseLocs[i] :
          /\ getUseLocs(i)[p] < MaxRegs
          /\ \A r \in getPredicateRegisters(U, getUseLocs(i)[p]) :
                /\ r \notin {PRTmpOf(U), P0}
                /\ r = AvailPredRegs(U)[getUseLocs(i)[p] + 1]


(***************************************************************************)
(* Specification SpecCall: a call from a block of a single-path function   *)
(* to a single-path function. doReduceFunction runs on either function     *)
(* with the predicate registers the function leaves unused; the caller     *)
(* reaches the call, executes the PMOV applyPredicates put in front of it  *)
(* and calls; the callee executes its frame setup and the PMOV in front of *)
(* its first predicated instruction.                                       *)
(***************************************************************************)
\* the sets of predicate registers a function leaves unused: PRTmp and one
\* register for the allocation at least
UnusedSets ==
  {U \in SUBSET (PRegsRegClass \ {P0}) :
     /\ Cardinality(U) >= 2
     /\ Cardinality(PRegsRegClass \ {P0}) - Cardinality(U) <= MaxUsedPRegs}

\* caller and callee: their unused registers, the location of the guard of
\* the calling block (-1: the predicate has no use location, P0 is taken)
\* and the location of the header predicate of the callee
CallFuncs ==
  {f \in [callerUnused : UnusedSets, calleeUnused : UnusedSets,
          callLoc : -1 .. MaxCallLoc, hdrLoc : 0 .. MaxCallLoc] :
     /\ f.callLoc < Len(AvailPredRegs(f.callerUnused))
     /\ f.hdrLoc < Len(AvailPredRegs(f.calleeUnused))}

\* applyPredicates in the caller: predRegs.count(instrPred) ?
\* predRegs[instrPred] : Patmos::P0
CallPredReg(f) ==
  IF f.callLoc = -1 THEN P0 ELSE AvailPredRegs(f.callerUnused)[f.callLoc + 1]

\* applyPredicates in the callee: predRegs[pred] of the header predicate
HeaderPredReg(f) == AvailPredRegs(f.calleeUnused)[f.hdrLoc + 1]

InitCall ==
  /\ callFuncs = EmptyMap
  /\ callRegs = EmptyMap
  /\ callGuard = FALSE
  /\ callPc = "start"
  /\ MaxRegs = 1
  /\ RAIdle
  /\ TreeIdle
  /\ LocIdle
  /\ LinIdle
  /\ ElimIdle
  /\ DefsIdle
  /\ ApplyIdle
  /\ PrepIdle
  /\ ExecIdle

\* doReduceFunction on caller and callee
ReduceFunctions ==
  /\ callPc = "start"
  /\ callFuncs' \in CallFuncs
  /\ callPc' = "reduced"
  /\ UNCHANGED <<callRegs, callGuard>>
  /\ UNCHANGED otherThanCall

\* the caller runs up to the PMOV in front of the call; P0 is always true
ReachCallSite ==
  /\ callPc = "reduced"
  /\ callRegs' \in {m \in [PRegsRegClass -> BOOLEAN] : m[P0]}
  /\ callPc' = "site"
  /\ UNCHANGED <<callFuncs, callGuard>>
  /\ UNCHANGED otherThanCall

\* the caller: PMOV PRTmp = predReg; SWC of R9; the call
ExecuteCall ==
  /\ callPc = "site"
  /\ callGuard' = callRegs[CallPredReg(callFuncs)]
  /\ callRegs' = [callRegs EXCEPT ![PRTmpOf(callFuncs.callerUnused)] =
                                     callRegs[CallPredReg(callFuncs)]]
  /\ callPc' = "called"
  /\ UNCHANGED callFuncs
  /\ UNCHANGED otherThanCall

\* the callee: the frame setup; PMOV predReg = PRTmp
EnterCallee ==
  /\ callPc = "called"
  /\ callRegs' = [callRegs EXCEPT ![HeaderPredReg(callFuncs)] =
                                     callRegs[PRTmpOf(callFuncs.calleeUnused)]]
  /\ callPc' = "entered"
  /\ UNCHANGED <<callFuncs, callGuard>>
  /\ UNCHANGED otherThanCall

NextCall ==
  \/ ReduceFunctions
  \/ ReachCallSite
  \/ ExecuteCall
  \/ EnterCallee

SpecCall == InitCall /\ [][NextCall]_vars

\* C30: caller and callee select the same PRTmp, and the header predicate
\* register of the callee holds, behind the PMOV of the callee, the value
\* the guard of the calling block had at the call.
C30_GuardPassedToCallee ==
  callPc = "entered" =>
    /\ PRTmpOf(callFuncs.callerUnused) = PRTmpOf(callFuncs.calleeUnused)
    /\ callRegs[HeaderPredReg(callFuncs)] = callGuard

====
